---- MODULE Spec2Model ----
(***************************************************************************)
(* Per-user progress, session and level-assignment state machine of the    *)
(* TextCollection routes:                                                  *)
(*   GET/POST /api/user-progress   (leveled revision, upload-audio/route)  *)
(*   GET      /api/check-session   (check-session/route, first revision)   *)
(*   GET      /api/get-level-scripts (check-session/route, second revision)*)
(* Every await on the relational store is one atomic step; the local       *)
(* computation that follows an await is part of the same step.             *)
(***************************************************************************)
EXTENDS Integers, Sequences, FiniteSets, TLC

(***************************************************************************)
(* Bounds of the model.                                                    *)
(***************************************************************************)
\* highest level a get-level-scripts request names, and highest level a
\* completion is started from
MaxLevel == 2
\* number of accepted completions after which no further completion starts
MaxAccepted == 2

(***************************************************************************)
(* Program constants.                                                      *)
(***************************************************************************)
scriptsPerLevel == 50
FallbackScriptsPerLevel == 50
LcgMultiplier == 9301
LcgIncrement == 49297
LcgModulus == 233280

(***************************************************************************)
(* Strings are sequences of UTF-16 code units.                             *)
(***************************************************************************)
Space == 32

RECURSIVE TrimStart(_)
TrimStart(s) ==
    IF s # <<>> /\ Head(s) = Space THEN TrimStart(Tail(s)) ELSE s

RECURSIVE TrimEnd(_)
TrimEnd(s) ==
    IF s # <<>> /\ s[Len(s)] = Space THEN TrimEnd(SubSeq(s, 1, Len(s) - 1)) ELSE s

ToLowerCase(s) ==
    [i \in 1..Len(s) |-> IF s[i] >= 65 /\ s[i] <= 90 THEN s[i] + 32 ELSE s[i]]

\* variant: the name is trimmed but its case is kept
NormalizeTrimOnly(usernameParam) == TrimEnd(TrimStart(usernameParam))

\* usernameParam.trim().toLowerCase()
NormalizeUsername(usernameParam) == ToLowerCase(TrimEnd(TrimStart(usernameParam)))

\* String(level) for a non-negative integer
RECURSIVE DecimalString(_)
DecimalString(n) ==
    IF n < 10 THEN <<48 + n>>
    ELSE Append(DecimalString(n \div 10), 48 + (n % 10))

\* "_level_"
LevelInfix == <<95, 108, 101, 118, 101, 108, 95>>

(***************************************************************************)
(* generateSeed.  A value of the 32-bit hash is kept as its two 16-bit     *)
(* halves <<hi, lo>> (two's complement), so that hash*31 + char wraps      *)
(* exactly as ((hash << 5) - hash) + char followed by hash & hash does.    *)
(***************************************************************************)
Half == 65536

HashStep(hash, char) ==
    LET lo == hash[2] * 31 + char
        hi == hash[1] * 31 + (lo \div Half)
    IN  <<hi % Half, lo % Half>>

RECURSIVE HashFrom(_, _)
HashFrom(hash, str) ==
    IF str = <<>> THEN hash ELSE HashFrom(HashStep(hash, Head(str)), Tail(str))

\* Math.abs of the signed 32-bit value <<hi, lo>>, as an unsigned <<hi, lo>>
\* (Math.abs(-2^31) is 2^31 = <<32768, 0>>).
Abs32Identity(hash) == hash

Abs32(hash) ==
    IF hash[1] < 32768 THEN hash
    ELSE LET borrow == IF hash[2] = 0 THEN 0 ELSE 1
         IN  <<Half - hash[1] - borrow, (Half - hash[2]) % Half>>

generateSeed(username, level) ==
    Abs32(HashFrom(<<0, 0>>, username \o LevelInfix \o DecimalString(level)))

(***************************************************************************)
(* seededShuffle.  random stays an exact integer in the source (all values *)
(* are below 2^53); here products are reduced modulo 233280 factor by      *)
(* factor, which gives the same residues.  Math.floor((random / 233280) *  *)
(* (i + 1)) equals the integer quotient for every i + 1 < 45.              *)
(***************************************************************************)
\* (a * LcgMultiplier + LcgIncrement) % LcgModulus for 0 <= a < LcgModulus
LcgOfResidue(a) ==
    LET half == (a * (LcgMultiplier \div 2)) % LcgModulus
    IN  (half * 2 + a * (LcgMultiplier % 2) + LcgIncrement) % LcgModulus

\* seed % LcgModulus for seed = hi * 65536 + lo
SeedResidue(seed) ==
    LET hiPart == ((seed[1] * (Half \div 2)) % LcgModulus) * 2
    IN  (hiPart + seed[2]) % LcgModulus

SwapOverwrite(arr, a, b) == [arr EXCEPT ![a] = arr[b]]

Swap(arr, a, b) == [arr EXCEPT ![a] = arr[b], ![b] = arr[a]]

\* (random / 233280) * (i + 1) is computed in doubles: for i + 1 up to 50
\* (a level has at most 50 scripts) the rounded product falls below the exact
\* one, an integer, in these two cases only
RoundedBelow == {<<67392, 45>>, <<134784, 45>>}

\* Math.floor((random / 233280) * (i + 1))
swapPartner(random, i) ==
    LET exact == (random * (i + 1)) \div LcgModulus
    IN  IF <<random, i + 1>> \in RoundedBelow THEN exact - 1 ELSE exact

\* the loop body and the rest of the loop for (0-based) index i, i > 0
RECURSIVE ShuffleLoop(_, _, _)
ShuffleLoop(shuffled, random, i) ==
    IF i <= 0 THEN shuffled
    ELSE LET next == LcgOfResidue(random)
             j == swapPartner(next, i)
         IN  ShuffleLoop(Swap(shuffled, i + 1, j + 1), next, i - 1)

seededShuffle(array, seed) == ShuffleLoop(array, SeedResidue(seed), Len(array) - 1)

(***************************************************************************)
(* The external prompt source ("the sheet"): column A, rows 1, 2, ...      *)
(* A cell is "" (empty), " " (white space only) or "text".                 *)
(***************************************************************************)
\* level 1: one script (row 1 is white space); level 2: two scripts with an
\* empty row between them; level 3: white space only; nothing above
SheetRows == [text |-> {2, 51, 53}, space |-> {1, 101}]

CellOf(sh, row) ==
    IF row \in sh.text THEN "text" ELSE IF row \in sh.space THEN " " ELSE ""

\* Calculate script range for this level (1-based indexing)
\* variant: a 0-based first row
startScriptRowZeroBased(level) == (level - 1) * scriptsPerLevel
startScriptRow(level) == (level - 1) * scriptsPerLevel + 1
endScriptRow(level) == level * scriptsPerLevel

\* sheets.spreadsheets.values.get for A<first>:A<last>: the rows of the range
\* up to its last non-empty cell (trailing empty rows are not returned)
SheetValues(sh, first, last) ==
    LET filled == {r \in first..last : CellOf(sh, r) # ""}
        top == IF filled = {} THEN first - 1
               ELSE CHOOSE r \in filled : \A q \in filled : q <= r
    IN  [k \in 1..(top - first + 1) |-> CellOf(sh, first + k - 1)]

\* variant: the text is compared without trim()
TextIsNonEmpty(cell) == cell # ""

\* text.trim() !== ''
TrimIsNonEmpty(cell) == cell \notin {"", " "}

\* values.map(...).filter(...).map(s => s.originalRowIndex), in row order
RECURSIVE OriginalIndicesFrom(_, _, _)
OriginalIndicesFrom(values, first, k) ==
    IF k > Len(values) THEN <<>>
    ELSE (IF TrimIsNonEmpty(values[k]) THEN <<first + k - 1>> ELSE <<>>)
         \o OriginalIndicesFrom(values, first, k + 1)

originalIndices(values, first) == OriginalIndicesFrom(values, first, 1)

(***************************************************************************)
(* The users table.  A row's id is its position; level_script_order <<>>   *)
(* stands for the null column (a stored order is never the empty array).   *)
(***************************************************************************)
NullOrder == <<>>
NoSession == ""
Sessions == {"s1", "s2"}

\* raw usernames a client may type: "a", " A "
RawUsernames == {<<97>>, <<32, 65, 32>>}
\* userId values a client may send; 0 stands for a missing parameter
MissingUserId == 0
RequestUserIds == {1}
\* originalRowIndex values a client may send; -1 stands for undefined
Undefined == -1
RequestRowIndices == {2}
RequestLevels == 1..MaxLevel

VARIABLES
    users,       \* the users table
    sheet,       \* column A of the sheet
    now,         \* the clock read by new Date()
    pc,          \* per client: where the request it waits for stands
    req,         \* per client: the request it sent
    loc,         \* per client: the handler's local variables across an await
    resp,        \* per client: the response body it received
    start,       \* history: the users table the behaviour started from
    accepted,    \* history: completions answered with success and no conflict
    lastPrompt,  \* history, per level: the body of the last
                 \* get-level-scripts response for the level, of a call
                 \* during which, and after which, no completion was written
    gpCall,      \* history, per client with a get-level-scripts call at its
                 \* await: lastPrompt of its level as it was when the call
                 \* started (prev), and whether no completion was written
                 \* since (clean)
    drive,       \* the files of the Google Drive folder, in order of creation
    recordings,  \* the recordings table
    tab          \* the state of the AudioCollector component of one browser
                 \* tab: isSessionValid, showUsernameModal, what
                 \* sessionCheckIntervalRef holds ("null", a "running" or a
                 \* "cleared" timer), the number of interval timers
                 \* running, and whether it is mounted

vars == <<users, sheet, now, pc, req, loc, resp, start, accepted, lastPrompt, gpCall,
          drive, recordings, tab>>
blobVars == <<drive, recordings>>
dbVars == <<users, sheet, now, start, blobVars, tab>>
ghostVars == <<lastPrompt, gpCall>>

\* the browser tabs / devices; each sends one request at a time
Clients == {1, 2}

\* the component after mount: useState(true) for isSessionValid and
\* showUsernameModal, useRef(null) for sessionCheckIntervalRef
MountedTab ==
    [isSessionValid |-> TRUE, showUsernameModal |-> TRUE,
     sessionCheckIntervalRef |-> "null", intervals |-> 0, mounted |-> TRUE]

None == [none |-> TRUE]
NoPrompts == [l \in RequestLevels |-> None]
Failure500(msg) == [status |-> 500, success |-> FALSE, error |-> msg]
BadRequest400(msg) == [status |-> 400, success |-> FALSE, error |-> msg]

\* client c sends a request and the handler runs to its first await
Await(c, at, request, locals) ==
    /\ pc' = [pc EXCEPT ![c] = at]
    /\ req' = [req EXCEPT ![c] = request]
    /\ loc' = [loc EXCEPT ![c] = locals]
    /\ UNCHANGED resp

\* the handler of client c's request returns body
Reply(c, request, body) ==
    /\ pc' = [pc EXCEPT ![c] = "done"]
    /\ req' = [req EXCEPT ![c] = request]
    /\ loc' = [loc EXCEPT ![c] = None]
    /\ resp' = [resp EXCEPT ![c] = body]

\* .from('users') ... .single(): exactly one row, or the PGRST116 error
\* ("not found", upload-audio/route.ts lines 543-546)
SingleResult(rows) ==
    IF Len(rows) = 1 THEN [error |-> "", data |-> rows]
    ELSE [error |-> "PGRST116", data |-> <<>>]

SelectById(userId) ==
    SingleResult(IF userId \in DOMAIN users THEN <<users[userId]>> ELSE <<>>)

SelectByUsername(username) ==
    SingleResult(SelectSeq(users, LAMBDA u : u.username = username))

Init ==
    /\ users = <<>>
    /\ sheet = SheetRows
    /\ drive = <<>>
    /\ recordings = <<>>
    /\ tab = MountedTab
    /\ now = 0
    /\ pc = [c \in Clients |-> "idle"]
    /\ req = [c \in Clients |-> None]
    /\ loc = [c \in Clients |-> None]
    /\ resp = [c \in Clients |-> None]
    /\ start = users
    /\ accepted = 0
    /\ lastPrompt = NoPrompts
    /\ gpCall = [c \in Clients |-> None]

\* the client reads the response
Return(c) ==
    /\ pc[c] = "done"
    /\ pc' = [pc EXCEPT ![c] = "idle"]
    /\ req' = [req EXCEPT ![c] = None]
    /\ resp' = [resp EXCEPT ![c] = None]
    /\ UNCHANGED <<dbVars, loc, accepted, ghostVars>>

(***************************************************************************)
(* GET /api/user-progress (leveled): get or create the user and make the   *)
(* requesting session the active one.                                      *)
(***************************************************************************)
NewUserRowVersionOne(username, sessionId) ==
    [username |-> username, last_script_id |-> 0, current_level |-> 1,
     scripts_completed_in_level |-> 0, level_script_order |-> NullOrder,
     session_id |-> sessionId, last_activity |-> now, version |-> 1]

NewUserRow(username, sessionId) ==
    [username |-> username, last_script_id |-> 0, current_level |-> 1,
     scripts_completed_in_level |-> 0, level_script_order |-> NullOrder,
     session_id |-> sessionId, last_activity |-> now, version |-> 0]

\* request parsing and the lookup by normalized username
ResolveLookup(c, usernameParam, sessionParam) ==
    /\ pc[c] = "idle"
    /\ LET request == [op |-> "resolve"]
       IN  IF usernameParam = <<>>
           THEN Reply(c, request, BadRequest400("Username is required"))
           ELSE \E generated \in Sessions :
                LET sessionId == IF sessionParam # NoSession THEN sessionParam
                                 ELSE generated
                    username == NormalizeUsername(usernameParam)
                    found == SelectByUsername(username)
                IN  /\ sessionParam # NoSession => generated = sessionParam
                    /\ IF found.error = ""
                       THEN Await(c, "resolveUpdate", request,
                                  [username |-> username, sessionId |-> sessionId,
                                   existingUser |-> CHOOSE i \in DOMAIN users :
                                                   users[i].username = username])
                       ELSE Await(c, "resolveInsert", request,
                                  [username |-> username, sessionId |-> sessionId])
    /\ UNCHANGED <<dbVars, accepted, ghostVars>>

SessionTakeoverNoRefresh(row, sessionId) ==
    [row EXCEPT !.session_id = sessionId]

SessionTakeover(row, sessionId) ==
    [row EXCEPT !.session_id = sessionId, !.last_activity = now]

\* existing user: the unconditional session overwrite
ResolveUpdate(c) ==
    /\ pc[c] = "resolveUpdate"
    /\ LET id == loc[c].existingUser
           updatedUser == SessionTakeover(users[id], loc[c].sessionId)
       IN  /\ users' = [users EXCEPT ![id] = updatedUser]
           /\ Reply(c, req[c],
                  [status |-> 200, success |-> TRUE, userId |-> id,
                   username |-> updatedUser.username,
                   currentLevel |-> updatedUser.current_level,
                   scriptsCompletedInLevel |-> updatedUser.scripts_completed_in_level,
                   version |-> updatedUser.version,
                   sessionId |-> loc[c].sessionId, isNewUser |-> FALSE])
    /\ UNCHANGED <<blobVars, tab, sheet, now, start, accepted, ghostVars>>

\* the users table's unique key on username rejects a second row
UniqueViolation(username) ==
    \E i \in DOMAIN users : users[i].username = username

\* unseen user: the insert
ResolveInsert(c) ==
    /\ pc[c] = "resolveInsert"
    /\ IF UniqueViolation(loc[c].username)
       THEN /\ Reply(c, req[c], Failure500("Failed to get user progress"))
            /\ UNCHANGED users
       ELSE LET newUser == NewUserRow(loc[c].username, loc[c].sessionId)
            IN  /\ users' = Append(users, newUser)
                /\ Reply(c, req[c],
                       [status |-> 200, success |-> TRUE, userId |-> Len(users'),
                        username |-> newUser.username, currentLevel |-> 1,
                        scriptsCompletedInLevel |-> 0, version |-> newUser.version,
                        sessionId |-> loc[c].sessionId, isNewUser |-> TRUE])
    /\ UNCHANGED <<blobVars, tab, sheet, now, start, accepted, ghostVars>>

(***************************************************************************)
(* POST /api/user-progress (leveled): record one completed script.         *)
(***************************************************************************)
\* Array.isArray(order) && order.length > 0 ? order.length : 50
scriptsPerLevelFixed(order) == FallbackScriptsPerLevel

scriptsPerLevelOf(order) ==
    IF Len(order) > 0 THEN Len(order) ELSE FallbackScriptsPerLevel

levelCompleteOf(cur) ==
    cur.scripts_completed_in_level + 1 >= scriptsPerLevelOf(cur.level_script_order)

\* variant: the level is not advanced when it completes
nextLevelStays(cur) == cur.current_level

nextLevelOf(cur) ==
    IF levelCompleteOf(cur) THEN cur.current_level + 1 ELSE cur.current_level

nextScriptsCompletedOf(cur) ==
    IF levelCompleteOf(cur) THEN 0 ELSE cur.scripts_completed_in_level + 1

\* variant: the order is written back even when the level completes
nextOrderKept(cur) == cur.level_script_order

\* levelComplete ? null : currentUser.level_script_order
nextOrderOf(cur) ==
    IF levelCompleteOf(cur) THEN NullOrder ELSE cur.level_script_order

\* variant: the session check is left out
SessionNeverInvalidated(sessionId, cur) == FALSE

\* sessionId && currentUser.session_id !== sessionId
SessionInvalidated(sessionId, cur) ==
    sessionId # NoSession /\ cur.session_id # sessionId

\* variant: the progress advances only when the submitted index is the next
\* one of the stored order
ProgressUpdateStrict(row, request, cur) ==
    IF /\ cur.scripts_completed_in_level < Len(cur.level_script_order)
       /\ request.originalRowIndex
              = cur.level_script_order[cur.scripts_completed_in_level + 1]
    THEN [row EXCEPT !.last_script_id = request.originalRowIndex,
                     !.current_level = nextLevelOf(cur),
                     !.scripts_completed_in_level = nextScriptsCompletedOf(cur),
                     !.level_script_order = nextOrderOf(cur),
                     !.session_id = IF request.sessionId # NoSession
                                    THEN request.sessionId ELSE cur.session_id,
                     !.last_activity = now,
                     !.version = cur.version + 1]
    ELSE [row EXCEPT !.last_activity = now]

\* the object passed to .update(...)
ProgressUpdate(row, request, cur) ==
    [row EXCEPT !.last_script_id = request.originalRowIndex,
                !.current_level = nextLevelOf(cur),
                !.scripts_completed_in_level = nextScriptsCompletedOf(cur),
                !.level_script_order = nextOrderOf(cur),
                !.session_id = IF request.sessionId # NoSession
                               THEN request.sessionId ELSE cur.session_id,
                !.last_activity = now,
                !.version = cur.version + 1]

\* .eq('id', userId).eq('scripts_completed_in_level', scriptsCompletedInLevel)
UpdateMatches(userId, cur) ==
    /\ userId \in DOMAIN users
    /\ users[userId].scripts_completed_in_level = cur.scripts_completed_in_level

\* the bounds of the model: a completion starts from a bounded level and
\* after a bounded number of accepted completions
WithinBounds(userId) ==
    /\ accepted < MaxAccepted
    /\ userId \in DOMAIN users => users[userId].current_level <= MaxLevel

\* of the selected columns, the ones the handler reads
SelectProgress(row) ==
    [current_level |-> row.current_level,
     scripts_completed_in_level |-> row.scripts_completed_in_level,
     level_script_order |-> row.level_script_order,
     session_id |-> row.session_id, version |-> row.version]

\* request parsing, the load of the row and the session check
RecordLoad(c, userId, originalRowIndex, sessionId) ==
    /\ pc[c] = "idle"
    /\ WithinBounds(userId)
    /\ LET request == [op |-> "record", userId |-> userId,
                       originalRowIndex |-> originalRowIndex,
                       sessionId |-> sessionId]
           fetched == SelectById(userId)
           cur == SelectProgress(fetched.data[1])
       IN  IF userId = MissingUserId \/ originalRowIndex = Undefined
           THEN Reply(c, request,
                      BadRequest400("userId and originalRowIndex are required"))
           ELSE IF fetched.error # ""
           THEN Reply(c, request, Failure500("Failed to update user progress"))
           ELSE IF SessionInvalidated(sessionId, cur)
           THEN Reply(c, request,
                      [status |-> 409, success |-> FALSE,
                       error |-> "SESSION_INVALIDATED",
                       currentSessionId |-> cur.session_id])
           ELSE Await(c, "recordUpdate", request, cur)
    /\ UNCHANGED <<dbVars, accepted, ghostVars>>

\* the response after the conditional update returned { data, error };
\* latest is the row as re-read on the conflict path
RecordResponse(userId, cur, result, latest) ==
    IF result.error # ""
    THEN Failure500("Failed to update user progress")
    ELSE IF Len(result.data) = 0
            \/ result.data[1].scripts_completed_in_level # nextScriptsCompletedOf(cur)
    THEN [status |-> 200, success |-> TRUE, conflict |-> TRUE,
          currentLevel |-> latest.current_level,
          scriptsCompletedInLevel |-> latest.scripts_completed_in_level]
    ELSE [status |-> 200, success |-> TRUE, userId |-> userId,
          currentLevel |-> result.data[1].current_level,
          scriptsCompletedInLevel |-> result.data[1].scripts_completed_in_level,
          levelComplete |-> levelCompleteOf(cur),
          version |-> result.data[1].version]

\* a completion answered with success and without conflict
IsAccepted(body) ==
    /\ body.status = 200
    /\ body.success
    /\ "conflict" \notin DOMAIN body

\* the conditional update, .select().single(), and the response
RecordUpdate(c) ==
    /\ pc[c] = "recordUpdate"
    /\ LET userId == req[c].userId
           cur == loc[c]
           matched == UpdateMatches(userId, cur)
           newRow == ProgressUpdate(users[userId], req[c], cur)
           result == SingleResult(IF matched THEN <<newRow>> ELSE <<>>)
           body == RecordResponse(userId, cur, result, users'[userId])
       IN  /\ users' = IF matched THEN [users EXCEPT ![userId] = newRow] ELSE users
           /\ Reply(c, req[c], body)
           /\ accepted' = IF IsAccepted(body) THEN accepted + 1 ELSE accepted
           /\ lastPrompt' = IF matched THEN NoPrompts ELSE lastPrompt
           /\ gpCall' = IF matched
                        THEN [d \in Clients |->
                                 IF gpCall[d] = None THEN None
                                 ELSE [prev |-> None, clean |-> FALSE]]
                        ELSE gpCall
    /\ UNCHANGED <<blobVars, tab, sheet, now, start>>

(***************************************************************************)
(* GET /api/get-level-scripts: the next script of a level, creating and    *)
(* storing the shuffled order of the level when there is none to reuse.    *)
(***************************************************************************)
\* user.level_script_order && user.current_level === level
ReuseStoredOrder(user, level) ==
    user.level_script_order # NullOrder /\ user.current_level = level

\* variant: the stored order is not the order the response is served from
StoreOrderReversed(row, scriptOrder, level) ==
    [row EXCEPT !.level_script_order =
                    [k \in 1..Len(scriptOrder) |-> scriptOrder[Len(scriptOrder) + 1 - k]],
                !.current_level = level]

\* variant: the fresh order is stored without the level it belongs to
StoreOrderKeepingLevel(row, scriptOrder, level) ==
    [row EXCEPT !.level_script_order = scriptOrder]

\* variant: the order is stored rotated by one place
StoreOrderRotated(row, scriptOrder, level) ==
    [row EXCEPT !.level_script_order =
                    [k \in 1..Len(scriptOrder) |->
                        scriptOrder[(k % Len(scriptOrder)) + 1]],
                !.current_level = level]

\* the .update({ level_script_order, current_level }) of a fresh order
StoreOrder(row, scriptOrder, level) ==
    [row EXCEPT !.level_script_order = scriptOrder, !.current_level = level]

\* variant: the script served is the one after the next of the order
ScriptResponseSkipping(user, scriptOrder, level) ==
    LET currentScriptIndex == user.scripts_completed_in_level
        nextScriptRowIndex ==
            scriptOrder[IF currentScriptIndex + 2 <= Len(scriptOrder)
                        THEN currentScriptIndex + 2 ELSE currentScriptIndex + 1]
        totalScriptsInLevel == Len(scriptOrder)
        scriptsRemainingInLevel == totalScriptsInLevel - currentScriptIndex - 1
    IN  IF currentScriptIndex >= Len(scriptOrder)
        THEN [status |-> 200, success |-> TRUE, levelComplete |-> TRUE,
              scriptText |-> ""]
        ELSE [status |-> 200, success |-> TRUE, level |-> level,
              scriptText |-> CellOf(sheet, nextScriptRowIndex),
              originalRowIndex |-> nextScriptRowIndex,
              scriptIndexInLevel |-> currentScriptIndex,
              totalScriptsInLevel |-> totalScriptsInLevel,
              scriptsRemainingInLevel |-> scriptsRemainingInLevel,
              levelComplete |-> (scriptsRemainingInLevel = 0)]

\* everything after scriptOrder is known: the index check, the fetch of the
\* script text and the response
ScriptResponse(user, scriptOrder, level) ==
    LET currentScriptIndex == user.scripts_completed_in_level
        nextScriptRowIndex == scriptOrder[currentScriptIndex + 1]
        scriptText == CellOf(sheet, nextScriptRowIndex)
        totalScriptsInLevel == Len(scriptOrder)
        scriptsRemainingInLevel == totalScriptsInLevel - currentScriptIndex - 1
    IN  IF currentScriptIndex >= Len(scriptOrder)
        THEN [status |-> 200, success |-> TRUE, levelComplete |-> TRUE,
              scriptText |-> ""]
        ELSE IF nextScriptRowIndex = 0
        THEN [status |-> 200, success |-> FALSE, levelComplete |-> TRUE,
              error |-> "No more scripts in this level"]
        ELSE IF scriptText = ""
        THEN [status |-> 404, success |-> FALSE, error |-> "Script text not found"]
        ELSE [status |-> 200, success |-> TRUE, level |-> level,
              scriptText |-> scriptText,
              originalRowIndex |-> nextScriptRowIndex,
              scriptIndexInLevel |-> currentScriptIndex,
              totalScriptsInLevel |-> totalScriptsInLevel,
              scriptsRemainingInLevel |-> scriptsRemainingInLevel,
              levelComplete |-> (scriptsRemainingInLevel = 0)]

\* request parsing, the load of the user and, with no order to reuse, the
\* fetch of the level's rows and the shuffle
LevelScriptsLoad(c, userId, level) ==
    /\ pc[c] = "idle"
    /\ LET request == [op |-> "levelScripts", userId |-> userId, level |-> level]
           fetched == SelectById(userId)
           user == fetched.data[1]
           first == startScriptRow(level)
           values == SheetValues(sheet, first, endScriptRow(level))
           indices == originalIndices(values, first)
           replyAndRemember(body) ==
               /\ Reply(c, request, body)
               /\ lastPrompt' = [lastPrompt EXCEPT ![level] = body]
               /\ UNCHANGED gpCall
       IN  IF userId = MissingUserId
           THEN /\ Reply(c, request, BadRequest400("userId is required"))
                /\ UNCHANGED ghostVars
           ELSE IF fetched.error # ""
           THEN /\ Reply(c, request, [status |-> 404, success |-> FALSE,
                                      error |-> "User does not exist"])
                /\ UNCHANGED ghostVars
           ELSE IF ReuseStoredOrder(user, level)
           THEN replyAndRemember(ScriptResponse(user, user.level_script_order, level))
           ELSE IF Len(values) = 0
           THEN replyAndRemember([status |-> 404, success |-> FALSE,
                                  error |-> "No scripts found for level"])
           ELSE IF Len(indices) = 0
           THEN replyAndRemember([status |-> 404, success |-> FALSE,
                                  error |-> "No valid scripts found for level"])
           ELSE /\ Await(c, "levelStore", request,
                       [scripts_completed_in_level |-> user.scripts_completed_in_level,
                        scriptOrder |-> seededShuffle(indices,
                                            generateSeed(user.username, level))])
                /\ gpCall' = [gpCall EXCEPT ![c] =
                                  [prev |-> lastPrompt[level], clean |-> TRUE]]
                /\ UNCHANGED lastPrompt
    /\ UNCHANGED <<dbVars, accepted>>

\* the store of the fresh order, then the response
LevelScriptsStore(c) ==
    /\ pc[c] = "levelStore"
    /\ LET level == req[c].level
           scriptOrder == loc[c].scriptOrder
           body == ScriptResponse(loc[c], scriptOrder, level)
       IN  /\ users' = [users EXCEPT ![req[c].userId] =
                            StoreOrder(@, scriptOrder, level)]
           /\ Reply(c, req[c], body)
           /\ lastPrompt' = [lastPrompt EXCEPT ![level] =
                                  IF gpCall[c].clean THEN body ELSE None]
           /\ gpCall' = [gpCall EXCEPT ![c] = None]
    /\ UNCHANGED <<blobVars, tab, sheet, now, start, accepted>>

(***************************************************************************)
(* GET /api/check-session                                                  *)
(***************************************************************************)
CheckSessionResponse(isActive, currentSessionId) ==
    [status |-> 200, success |-> TRUE, isActive |-> isActive,
     currentSessionId |-> currentSessionId]

CheckSessionLoad(c, userId, sessionId) ==
    /\ pc[c] = "idle"
    /\ LET request == [op |-> "checkSession", userId |-> userId,
                       sessionId |-> sessionId]
           fetched == SelectById(userId)
           user == fetched.data[1]
           isActive == user.session_id = sessionId
       IN  IF userId = MissingUserId \/ sessionId = NoSession
           THEN Reply(c, request,
                      BadRequest400("userId and sessionId are required"))
           ELSE IF fetched.error # ""
           THEN Reply(c, request, Failure500("Failed to check session"))
           ELSE IF isActive
           THEN Await(c, "checkTouch", request, [session_id |-> user.session_id])
           ELSE Reply(c, request, CheckSessionResponse(FALSE, user.session_id))
    /\ UNCHANGED <<dbVars, accepted, ghostVars>>

\* .update({ last_activity }).eq('id', userId).eq('session_id', sessionId)
KeepAlive(row, sessionId) ==
    IF row.session_id = sessionId THEN [row EXCEPT !.last_activity = now] ELSE row

CheckSessionTouch(c) ==
    /\ pc[c] = "checkTouch"
    /\ users' = [users EXCEPT ![req[c].userId] = KeepAlive(@, req[c].sessionId)]
    /\ Reply(c, req[c], CheckSessionResponse(TRUE, loc[c].session_id))
    /\ UNCHANGED <<blobVars, tab, sheet, now, start, accepted, ghostVars>>

(***************************************************************************)
(* The specification: each client sends requests of any kind, one at a     *)
(* time; the handlers of different clients interleave at every await.      *)
(***************************************************************************)
Next ==
    \/ \E c \in Clients, u \in RawUsernames, s \in Sessions \cup {NoSession} :
           ResolveLookup(c, u, s)
    \/ \E c \in Clients : ResolveUpdate(c)
    \/ \E c \in Clients : ResolveInsert(c)
    \/ \E c \in Clients, id \in RequestUserIds, row \in RequestRowIndices,
          s \in Sessions \cup {NoSession} : RecordLoad(c, id, row, s)
    \/ \E c \in Clients : RecordUpdate(c)
    \/ \E c \in Clients, id \in RequestUserIds, level \in RequestLevels :
           LevelScriptsLoad(c, id, level)
    \/ \E c \in Clients : LevelScriptsStore(c)
    \/ \E c \in Clients, id \in RequestUserIds, s \in Sessions :
           CheckSessionLoad(c, id, s)
    \/ \E c \in Clients : CheckSessionTouch(c)
    \/ \E c \in Clients : Return(c)

Spec == Init /\ [][Next]_vars

(***************************************************************************)
(* The race of two completions: both clients record a completion for the   *)
(* same user with the stored session, and both load the row before either  *)
(* runs its conditional update.  The behaviour starts from a row with a    *)
(* persisted order, as the operations above produce it.                    *)
(***************************************************************************)
\* the order get-level-scripts creates for a level
FreshOrder(username, level) ==
    seededShuffle(originalIndices(SheetValues(SheetRows, startScriptRow(level),
                                              endScriptRow(level)),
                                  startScriptRow(level)),
                  generateSeed(username, level))

\* a user "a" with session s: at level 1 with its order (n = 1, k = 0),
\* at level 2 with its order (n = 2, k = 0), and one completion later (k = 1)
RaceRowAtLevel1(s) ==
    StoreOrder(NewUserRow(<<97>>, s), FreshOrder(<<97>>, 1), 1)
RaceRowAtLevel2(s) ==
    StoreOrder(ProgressUpdate(RaceRowAtLevel1(s),
                              [originalRowIndex |-> 2, sessionId |-> s],
                              SelectProgress(RaceRowAtLevel1(s))),
               FreshOrder(<<97>>, 2), 2)
RaceRowInLevel2(s) ==
    ProgressUpdate(RaceRowAtLevel2(s), [originalRowIndex |-> 2, sessionId |-> s],
                   SelectProgress(RaceRowAtLevel2(s)))
RaceStartRows ==
    UNION {{RaceRowAtLevel1(s), RaceRowAtLevel2(s), RaceRowInLevel2(s)} : s \in Sessions}

RaceRowIndices == {2, 51}

RaceInit ==
    /\ now = 0
    /\ sheet = SheetRows
    /\ drive = <<>>
    /\ recordings = <<>>
    /\ tab = MountedTab
    /\ \E row \in RaceStartRows : users = <<row>>
    /\ start = users
    /\ pc = [c \in Clients |-> "idle"]
    /\ req = [c \in Clients |-> None]
    /\ loc = [c \in Clients |-> None]
    /\ resp = [c \in Clients |-> None]
    /\ accepted = 0
    /\ lastPrompt = NoPrompts
    /\ gpCall = [c \in Clients |-> None]

\* a completion with the stored session that reads the row the race started from
RaceLoad(c, originalRowIndex) ==
    /\ users = start
    /\ RecordLoad(c, 1, originalRowIndex, users[1].session_id)

RaceNext ==
    \/ \E c \in Clients, row \in RaceRowIndices : RaceLoad(c, row)
    \/ \E c \in Clients : RecordUpdate(c)

SpecRace == RaceInit /\ [][RaceNext]_vars

(***************************************************************************)
(* Properties.                                                             *)
(***************************************************************************)
\* the rows of a level's range that hold a script (neither empty nor white
\* space only)
NonBlankRows(level) ==
    {r \in startScriptRow(level)..endScriptRow(level) : CellOf(sheet, r) = "text"}

IsPermutationOf(seq, set) ==
    /\ Len(seq) = Cardinality(set)
    /\ {seq[k] : k \in 1..Len(seq)} = set

\* C1: of two completions that both read the row at k completed of an order
\* of length n >= 1 and then ran their conditional updates, exactly one is
\* accepted; the row ends at k + 1 (or at the next level with 0 completed
\* when k + 1 = n) and its version is one higher.
ExactlyOneCompletionAccepted ==
    (\A c \in Clients : pc[c] = "done" /\ req[c].op = "record") =>
        LET before == start[1]
            after == users[1]
            k == before.scripts_completed_in_level
            n == Len(before.level_script_order)
        IN  /\ accepted = 1
            /\ after.version = before.version + 1
            /\ IF k + 1 = n
               THEN /\ after.current_level = before.current_level + 1
                    /\ after.scripts_completed_in_level = 0
               ELSE /\ after.current_level = before.current_level
                    /\ after.scripts_completed_in_level = k + 1

\* C2: a completion that carries a session id different from the stored one
\* is answered 409 SESSION_INVALIDATED with the stored session id, and the
\* users table is left as it was.
StaleSessionRejected ==
    [][\A c \in Clients :
          ( /\ pc[c] = "idle" /\ pc'[c] # "idle"
            /\ req'[c].op = "record"
            /\ req'[c].userId \in DOMAIN users
            /\ req'[c].sessionId # NoSession
            /\ req'[c].sessionId # users[req'[c].userId].session_id )
          => /\ pc'[c] = "done"
             /\ resp'[c].status = 409
             /\ resp'[c].error = "SESSION_INVALIDATED"
             /\ resp'[c].currentSessionId = users[req'[c].userId].session_id
             /\ users' = users]_vars

\* a completion was rejected for its session while another session is stored
StaleSessionWasRejected ==
    \E c \in Clients :
        /\ pc[c] = "done" /\ req[c].op = "record"
        /\ resp[c].status = 409
        /\ resp[c].currentSessionId # req[c].sessionId
        /\ users[req[c].userId].session_id = resp[c].currentSessionId

\* C3: the stored session id of a user changes only in the step in which a
\* resolve request for the user overwrites it.
SessionChangesOnlyByResolve ==
    [][\A i \in DOMAIN users :
          users'[i].session_id # users[i].session_id =>
              \E c \in Clients : /\ pc[c] = "resolveUpdate" /\ pc'[c] = "done"
                                 /\ loc[c].existingUser = i]_vars

\* C4: current_level of a user never decreases and is at least 1.
LevelNeverDecreases ==
    [][/\ \A i \in DOMAIN users :
              users'[i].current_level >= users[i].current_level
       /\ \A i \in DOMAIN users' : users'[i].current_level >= 1]_vars

\* C5: when an order is stored, scripts_completed_in_level is at most its
\* length.
CompletedWithinOrder ==
    \A i \in DOMAIN users :
        users[i].level_script_order # NullOrder =>
            users[i].scripts_completed_in_level <= Len(users[i].level_script_order)

\* C6 (as stated): a stored order is a permutation of all the row indices of
\* the range of current_level.
OrderPermutesWholeRange ==
    \A i \in DOMAIN users :
        users[i].level_script_order # NullOrder =>
            IsPermutationOf(users[i].level_script_order,
                            startScriptRow(users[i].current_level)
                                ..endScriptRow(users[i].current_level))

\* C6 (amended): with the sheet unchanged, a stored order is a permutation of
\* the indices of the rows of the range of current_level that hold a script.
OrderPermutesNonBlankRows ==
    \A i \in DOMAIN users :
        users[i].level_script_order # NullOrder =>
            IsPermutationOf(users[i].level_script_order,
                            NonBlankRows(users[i].current_level))

\* an order of two scripts, written back by a completion that did not end
\* the level
OrderWrittenBackByCompletion ==
    \E i \in DOMAIN users :
        /\ Len(users[i].level_script_order) = 2
        /\ users[i].scripts_completed_in_level = 1
        /\ users[i].version >= 1
        /\ \E c \in Clients : /\ pc[c] = "done" /\ req[c].op = "record"
                              /\ resp[c].status = 200

\* C7: version never decreases, every accepted completion leaves the stored
\* version one above the value stored before its write, and the stored
\* version equals the number of accepted completions.
VersionCountsAccepted ==
    [][\A i \in DOMAIN users :
          /\ users'[i].version >= users[i].version
          /\ accepted' # accepted => users'[i].version = users[i].version + 1
          /\ users'[i].version = accepted']_vars

\* C8: a completion whose conditional update matches no row is answered with
\* success and conflict = true, carrying the stored level and progress, and
\* leaves the users table as it was.
LostUpdateReportsConflict ==
    [][\A c \in Clients :
          ( /\ pc[c] = "recordUpdate" /\ pc'[c] = "done"
            /\ users[req[c].userId].scripts_completed_in_level
                   # loc[c].scripts_completed_in_level )
          => /\ resp'[c].status = 200
             /\ resp'[c].success
             /\ "conflict" \in DOMAIN resp'[c]
             /\ resp'[c].conflict
             /\ resp'[c].currentLevel = users[req[c].userId].current_level
             /\ resp'[c].scriptsCompletedInLevel
                    = users[req[c].userId].scripts_completed_in_level
             /\ users' = users]_vars

\* C9: an accepted completion of the last script of an order answers
\* levelComplete and stores the next level, 0 completed, the version it read
\* plus one and no order; a get-level-scripts request that finds no order
\* stored either answers 404 (no script in the range) or shuffles the rows of
\* the requested level that hold a script, and then stores that order with
\* the level.
LevelCompletionResets ==
    [][\A c \in Clients :
          /\ ( /\ pc[c] = "recordUpdate" /\ pc'[c] = "done"
               /\ resp'[c].status = 200 /\ "conflict" \notin DOMAIN resp'[c]
               /\ loc[c].level_script_order # NullOrder
               /\ loc[c].scripts_completed_in_level + 1
                      >= Len(loc[c].level_script_order) )
             => LET after == users'[req[c].userId]
                IN  /\ resp'[c].levelComplete
                    /\ resp'[c].currentLevel = loc[c].current_level + 1
                    /\ resp'[c].scriptsCompletedInLevel = 0
                    /\ resp'[c].version = loc[c].version + 1
                    /\ after.current_level = loc[c].current_level + 1
                    /\ after.scripts_completed_in_level = 0
                    /\ after.version = loc[c].version + 1
                    /\ after.level_script_order = NullOrder
          /\ ( /\ pc[c] = "idle" /\ pc'[c] # "idle"
               /\ req'[c].op = "levelScripts"
               /\ req'[c].userId \in DOMAIN users
               /\ users[req'[c].userId].level_script_order = NullOrder )
             => IF NonBlankRows(req'[c].level) = {}
                THEN pc'[c] = "done" /\ resp'[c].status = 404
                ELSE /\ pc'[c] = "levelStore"
                     /\ IsPermutationOf(loc'[c].scriptOrder,
                                        NonBlankRows(req'[c].level))
          /\ (pc[c] = "levelStore" /\ pc'[c] = "done")
             => /\ users'[req[c].userId].level_script_order = loc[c].scriptOrder
                /\ users'[req[c].userId].current_level = req[c].level]_vars

\* one client was answered levelComplete for a completion that moved the user
\* to level 2, and the other's get-level-scripts request for level 2 has
\* shuffled the new range and is about to store the order
FreshShuffleAfterLevelComplete ==
    \E c, d \in Clients :
        /\ pc[c] = "done" /\ req[c].op = "record"
        /\ resp[c].status = 200 /\ resp[c].levelComplete
        /\ resp[c].currentLevel = 2
        /\ users[1].current_level = 2
        /\ users[1].level_script_order = NullOrder
        /\ pc[d] = "levelStore" /\ req[d].level = 2
        /\ Len(loc[d].scriptOrder) = 2

\* C10: a get-level-scripts response for a level equals the previous
\* response for that level when the call started after the previous one had
\* returned and no completion was written since the previous call started.
PromptReadIdempotent ==
    [][\A c \in Clients :
          (pc[c] # "done" /\ pc'[c] = "done" /\ req'[c].op = "levelScripts"
           /\ req'[c].userId \in DOMAIN users)
          => LET prev == IF pc[c] = "levelStore" THEN gpCall[c].prev
                         ELSE lastPrompt[req'[c].level]
             IN  prev # None => resp'[c] = prev]_vars

\* the second of two calls for level 2 was answered from the stored order
\* with the prompt the first call, which created the order, had returned
SamePromptServedAgain ==
    \E c \in Clients :
        /\ pc[c] = "done" /\ req[c].op = "levelScripts" /\ req[c].level = 2
        /\ resp[c].status = 200 /\ resp[c].originalRowIndex = 51
        /\ lastPrompt[2] = resp[c]
        /\ \E d \in Clients \ {c} :
               /\ pc[d] = "done" /\ req[d].op = "levelScripts" /\ req[d].level = 2
               /\ resp[d] = resp[c]

\* C11: a stored order changes only in the step in which an accepted
\* completion of the level's last script clears it.
OrderKeptUntilLevelComplete ==
    [][\A i \in DOMAIN users :
          ( /\ users[i].level_script_order # NullOrder
            /\ users'[i].level_script_order # users[i].level_script_order )
          => /\ users'[i].level_script_order = NullOrder
             /\ \E c \in Clients :
                    /\ pc[c] = "recordUpdate" /\ pc'[c] = "done"
                    /\ req[c].userId = i
                    /\ resp'[c].status = 200 /\ resp'[c].levelComplete]_vars

(***************************************************************************)
(* Sessions: resolve and check-session requests of two clients, for raw    *)
(* usernames that differ in case and surrounding white space, with the     *)
(* clock advancing.  The behaviour starts from an empty users table or     *)
(* from a user "a" with progress.                                          *)
(***************************************************************************)
\* highest value of the clock
MaxClock == 1

\* "a", " A ", "A", "b ", "B" and the empty string
ResolveUsernames == {<<97>>, <<32, 65, 32>>, <<65>>, <<98, 32>>, <<66>>, <<>>}
\* the normalized names of ResolveUsernames: "a", "b"
NormalizedNames == {<<97>>, <<98>>}
SessionUserIds == {1, 2}

SessionInit ==
    /\ now = 0
    /\ sheet = SheetRows
    /\ drive = <<>>
    /\ recordings = <<>>
    /\ tab = MountedTab
    /\ users \in {<<>>, <<RaceRowInLevel2("s1")>>}
    /\ start = users
    /\ pc = [c \in Clients |-> "idle"]
    /\ req = [c \in Clients |-> None]
    /\ loc = [c \in Clients |-> None]
    /\ resp = [c \in Clients |-> None]
    /\ accepted = 0
    /\ lastPrompt = NoPrompts
    /\ gpCall = [c \in Clients |-> None]

\* time passes between two store calls
Tick ==
    /\ now < MaxClock
    /\ now' = now + 1
    /\ UNCHANGED <<blobVars, tab, users, sheet, start, pc, req, loc, resp, accepted, ghostVars>>

SessionNext ==
    \/ \E c \in Clients, u \in ResolveUsernames, s \in Sessions \cup {NoSession} :
           ResolveLookup(c, u, s)
    \/ \E c \in Clients : ResolveUpdate(c)
    \/ \E c \in Clients : ResolveInsert(c)
    \/ \E c \in Clients, id \in SessionUserIds, s \in Sessions :
           CheckSessionLoad(c, id, s)
    \/ \E c \in Clients : CheckSessionTouch(c)
    \/ Tick
    \/ \E c \in Clients : Return(c)

SpecSession == SessionInit /\ [][SessionNext]_vars

\* C12: there is one row per normalized name, every row carries a normalized
\* name, and every successful resolve answers with the row of the normalized
\* name, whether it created the row or found it.
OneRowPerNormalizedName ==
    /\ \A i, j \in DOMAIN users : users[i].username = users[j].username => i = j
    /\ \A i \in DOMAIN users : users[i].username \in NormalizedNames
    /\ \A c \in Clients :
           (pc[c] = "done" /\ req[c].op = "resolve" /\ resp[c].status = 200)
           => /\ resp[c].userId \in DOMAIN users
              /\ resp[c].username \in NormalizedNames
              /\ users[resp[c].userId].username = resp[c].username

\* two first-time lookups of the same unseen name ran concurrently: one
\* created the row, the other's insert was refused, and a later lookup under
\* another spelling found the row
ConcurrentFirstLookups ==
    /\ Len(users) = 1
    /\ start = <<>>
    /\ \E c \in Clients :
           /\ pc[c] = "done" /\ req[c].op = "resolve" /\ resp[c].status = 500
           /\ \E d \in Clients \ {c} :
                  /\ pc[d] = "done" /\ req[d].op = "resolve"
                  /\ resp[d].status = 200 /\ ~resp[d].isNewUser
                  /\ resp[d].userId = 1

\* C13: a lookup that carries a session id goes on with that id, and the
\* insert for a name that has no row appends one row with that name at level
\* 1, 0 completed, version 0, the lookup's session id and no stored order, and
\* answers 200 with isNewUser and the same values.
NewUserStartsAtLevelOne ==
    [][/\ \A c \in Clients : \A u \in ResolveUsernames : \A s \in Sessions :
             (ResolveLookup(c, u, s) /\ pc'[c] # "done")
             => /\ loc'[c].sessionId = s
                /\ loc'[c].username = NormalizeUsername(u)
       /\ \A c \in Clients :
             ( /\ pc[c] = "resolveInsert" /\ pc'[c] = "done"
               /\ \A i \in DOMAIN users : users[i].username # loc[c].username )
             => /\ Len(users') = Len(users) + 1
                /\ \A i \in DOMAIN users : users'[i] = users[i]
                /\ LET created == users'[Len(users')]
                   IN  /\ created.username = loc[c].username
                       /\ created.current_level = 1
                       /\ created.scripts_completed_in_level = 0
                       /\ created.version = 0
                       /\ created.session_id = loc[c].sessionId
                       /\ created.level_script_order = NullOrder
                /\ resp'[c].status = 200
                /\ resp'[c].isNewUser
                /\ resp'[c].userId = Len(users')
                /\ resp'[c].username = loc[c].username
                /\ resp'[c].currentLevel = 1
                /\ resp'[c].scriptsCompletedInLevel = 0
                /\ resp'[c].version = 0
                /\ resp'[c].sessionId = loc[c].sessionId]_vars

\* C13 witness: a second user was created beside the existing one and the
\* caller holds the answer for the new row.
NewUserCreated ==
    \E c \in Clients :
        /\ pc[c] = "done" /\ req[c].op = "resolve" /\ resp[c].status = 200
        /\ resp[c].isNewUser
        /\ resp[c].userId = 2
        /\ Len(users) >= 2
        /\ users[2].session_id = resp[c].sessionId
        /\ users[2].version = 0


\* C14: a lookup of a name that has a row always goes on to the update with
\* the lookup's session id, whatever session the row holds; the update sets
\* the row's session id to it and the last activity to the current time,
\* leaves every other field and every other row alone, and answers 200 with
\* the row's unchanged level, completed count and version and isNewUser false.
ExistingUserTakenOver ==
    [][/\ \A c \in Clients : \A u \in ResolveUsernames : \A s \in Sessions :
             ( /\ ResolveLookup(c, u, s)
               /\ \E i \in DOMAIN users : users[i].username = NormalizeUsername(u) )
             => /\ pc'[c] = "resolveUpdate"
                /\ loc'[c].sessionId = s
                /\ users[loc'[c].existingUser].username = NormalizeUsername(u)
       /\ \A c \in Clients :
             (pc[c] = "resolveUpdate" /\ pc'[c] = "done")
             => LET id == loc[c].existingUser
                IN  /\ users' = [users EXCEPT ![id].session_id = loc[c].sessionId,
                                              ![id].last_activity = now]
                    /\ resp'[c].status = 200
                    /\ ~resp'[c].isNewUser
                    /\ resp'[c].userId = id
                    /\ resp'[c].sessionId = loc[c].sessionId
                    /\ resp'[c].currentLevel = users[id].current_level
                    /\ resp'[c].scriptsCompletedInLevel =
                           users[id].scripts_completed_in_level
                    /\ resp'[c].version = users[id].version]_vars

\* C14 witness: the user who held session s1 part-way through level 2 has
\* been taken over by s2 at a later time, progress untouched.
TakenOverWithProgress ==
    /\ Len(start) = 1 /\ start[1].session_id = "s1"
    /\ start[1].level_script_order # NullOrder
    /\ users[1] = [start[1] EXCEPT !.session_id = "s2", !.last_activity = MaxClock]
    /\ users[1].last_activity # start[1].last_activity
    /\ \E c \in Clients :
          /\ pc[c] = "done" /\ req[c].op = "resolve" /\ resp[c].status = 200
          /\ ~resp[c].isNewUser /\ resp[c].sessionId = "s2"
          /\ resp[c].currentLevel = 2

(***************************************************************************)
(* A takeover: the first client works under session s1 (completions and    *)
(* session checks) while the second client logs the same user in under     *)
(* session s2 and keeps the answer.                                        *)
(***************************************************************************)
TakeoverInit ==
    /\ now = 0
    /\ sheet = SheetRows
    /\ drive = <<>>
    /\ recordings = <<>>
    /\ tab = MountedTab
    /\ \E row \in {RaceRowAtLevel1("s1"), RaceRowAtLevel2("s1"),
                   RaceRowInLevel2("s1")} : users = <<row>>
    /\ start = users
    /\ pc = [c \in Clients |-> "idle"]
    /\ req = [c \in Clients |-> None]
    /\ loc = [c \in Clients |-> None]
    /\ resp = [c \in Clients |-> None]
    /\ accepted = 0
    /\ lastPrompt = NoPrompts
    /\ gpCall = [c \in Clients |-> None]

TakeoverNext ==
    \/ \E row \in RaceRowIndices : RecordLoad(1, 1, row, "s1")
    \/ RecordUpdate(1)
    \/ CheckSessionLoad(1, 1, "s1")
    \/ CheckSessionTouch(1)
    \/ Return(1)
    \/ ResolveLookup(2, <<97>>, "s2")
    \/ ResolveUpdate(2)
    \/ Tick

SpecTakeover == TakeoverInit /\ [][TakeoverNext]_vars

\* the second client holds the answer of its login under s2
TakenOver ==
    /\ pc[2] = "done" /\ resp[2].status = 200 /\ resp[2].sessionId = "s2"

\* a session check of the first client reads the row in this step
CheckSessionReads ==
    /\ pc[1] = "idle" /\ pc'[1] # "idle" /\ req'[1].op = "checkSession"

\* a session check is active exactly if the row holds the supplied session
\* when it is read; an inactive check changes nothing, an active one changes
\* at most the row's last activity
CheckSessionComparesAndTouches ==
    [][/\ CheckSessionReads
          => /\ users' = users
             /\ (pc'[1] = "checkTouch") <=> (users[1].session_id = "s1")
             /\ pc'[1] = "done"
                => /\ resp'[1].status = 200 /\ ~resp'[1].isActive
                   /\ resp'[1].currentSessionId = users[1].session_id
       /\ (pc[1] = "checkTouch" /\ pc'[1] = "done")
          => /\ resp'[1].isActive
             /\ \/ users' = users
                \/ users' = [users EXCEPT ![1].last_activity = now]]_vars

\* C15: a session check is active iff the stored session equals the supplied
\* one, an inactive check changes nothing, an active one only the last
\* activity, and every check with the old session id made after the takeover
\* is inactive.
OldSessionInactiveAfterTakeover ==
    /\ CheckSessionComparesAndTouches
    /\ [][(TakenOver /\ CheckSessionReads)
          => (pc'[1] = "done" /\ ~resp'[1].isActive)]_vars

(***************************************************************************)
(* seededShuffle on its own: two callers hold the same array and seed and  *)
(* each calls the function once.                                           *)
(***************************************************************************)
MaxItems == 3

ShuffleItems == 1..MaxItems

ShuffleArrays == UNION {[1..n -> ShuffleItems] : n \in 0..MaxItems}

\* seeds in the range generateSeed returns: 0, 1, 2^16, the largest (2^31),
\* and the seed of user "a" at level 1
ShuffleSeeds == {<<0, 0>>, <<0, 1>>, <<1, 0>>, <<32768, 0>>, generateSeed(<<97>>, 1)}

ShuffleInit ==
    /\ now = 0
    /\ sheet = SheetRows
    /\ drive = <<>>
    /\ recordings = <<>>
    /\ tab = MountedTab
    /\ users = <<>>
    /\ start = users
    /\ pc = [c \in Clients |-> "idle"]
    /\ req = [c \in Clients |-> None]
    /\ \E array \in ShuffleArrays, seed \in ShuffleSeeds :
          loc = [c \in Clients |-> [array |-> array, seed |-> seed]]
    /\ resp = [c \in Clients |-> None]
    /\ accepted = 0
    /\ lastPrompt = NoPrompts
    /\ gpCall = [c \in Clients |-> None]

\* const shuffled = [...array]; ...; return shuffled: the caller's array is
\* copied, the copy is permuted and returned
ShuffleCall(c) ==
    /\ pc[c] = "idle"
    /\ pc' = [pc EXCEPT ![c] = "done"]
    /\ req' = [req EXCEPT ![c] = [op |-> "seededShuffle"]]
    /\ resp' = [resp EXCEPT ![c] =
                   [status |-> 200,
                    shuffled |-> seededShuffle(loc[c].array, loc[c].seed)]]
    /\ UNCHANGED <<dbVars, loc, accepted, ghostVars>>

ShuffleNext == \E c \in Clients : ShuffleCall(c)

SpecShuffle == ShuffleInit /\ [][ShuffleNext]_vars

\* the number of positions of seq that hold x
Occurrences(seq, x) == Cardinality({i \in DOMAIN seq : seq[i] = x})

\* C16: every call returns a sequence of the length of its argument with the
\* same number of occurrences of every element, two calls with the same
\* arguments return the same sequence, and no call changes the caller's array.
ShuffleIsDeterministicPermutation ==
    /\ [](\A c \in Clients :
             pc[c] = "done"
             => /\ Len(resp[c].shuffled) = Len(loc[c].array)
                /\ \A x \in ShuffleItems :
                      Occurrences(resp[c].shuffled, x) = Occurrences(loc[c].array, x)
                /\ \A d \in Clients :
                      (pc[d] = "done" /\ loc[d] = loc[c])
                      => resp[d].shuffled = resp[c].shuffled)
    /\ [][loc' = loc]_vars

\* C16 witness: both calls have returned the same reordering of a full-length
\* array that holds an element twice.
ShuffledTwiceAlike ==
    /\ \A c \in Clients : pc[c] = "done"
    /\ Len(loc[1].array) = MaxItems
    /\ \E x \in ShuffleItems : Occurrences(loc[1].array, x) = 2
    /\ resp[1].shuffled # loc[1].array
    /\ resp[2].shuffled = resp[1].shuffled

(***************************************************************************)
(* generateSeed on its own: two callers hold the same username and level   *)
(* and each calls the function once.                                       *)
(***************************************************************************)
MaxNameLen == 3

\* every name of 1..MaxNameLen letters over "a", "b"; "bob", whose hash is
\* positive; and "hcqzafvv", whose hash at level 1 is the minimum 32-bit value
SeedUsernames ==
    UNION {[1..n -> {97, 98}] : n \in 1..MaxNameLen}
        \cup {<<98, 111, 98>>, <<104, 99, 113, 122, 97, 102, 118, 118>>}

\* the levels of the model and a level of two digits
SeedLevels == 1..MaxLevel \cup {10}

SeedInit ==
    /\ now = 0
    /\ sheet = SheetRows
    /\ drive = <<>>
    /\ recordings = <<>>
    /\ tab = MountedTab
    /\ users = <<>>
    /\ start = users
    /\ pc = [c \in Clients |-> "idle"]
    /\ req = [c \in Clients |-> None]
    /\ \E username \in SeedUsernames, level \in SeedLevels :
          loc = [c \in Clients |-> [username |-> username, level |-> level]]
    /\ resp = [c \in Clients |-> None]
    /\ accepted = 0
    /\ lastPrompt = NoPrompts
    /\ gpCall = [c \in Clients |-> None]

SeedCall(c) ==
    /\ pc[c] = "idle"
    /\ pc' = [pc EXCEPT ![c] = "done"]
    /\ req' = [req EXCEPT ![c] = [op |-> "generateSeed"]]
    /\ resp' = [resp EXCEPT ![c] =
                   [status |-> 200,
                    seed |-> generateSeed(loc[c].username, loc[c].level),
                    hash |-> HashFrom(<<0, 0>>, loc[c].username \o LevelInfix
                                                  \o DecimalString(loc[c].level))]]
    /\ UNCHANGED <<dbVars, loc, accepted, ghostVars>>

SeedNext == \E c \in Clients : SeedCall(c)

SpecSeed == SeedInit /\ [][SeedNext]_vars

\* C17: every call returns an integer from 0 to 2^31 (as <<hi, lo>>:
\* hi * 65536 + lo with hi <= 32768, and lo = 0 if hi = 32768), also when the
\* hash is negative or the minimum 32-bit value, and two calls with the same
\* username and level return the same value.
SeedIsPureAndNonNegative ==
    \A c \in Clients :
        pc[c] = "done"
        => /\ resp[c].seed[1] \in 0..32768
           /\ resp[c].seed[2] \in 0..(Half - 1)
           /\ resp[c].seed[1] = 32768 => resp[c].seed[2] = 0
           /\ \A d \in Clients :
                 (pc[d] = "done" /\ loc[d] = loc[c]) => resp[d].seed = resp[c].seed

\* C17 witness: both calls have returned 2^31 for the name whose hash is the
\* minimum 32-bit value.
SeedOfMinimumHash ==
    /\ \A c \in Clients : pc[c] = "done"
    /\ resp[1].hash = <<32768, 0>>
    /\ resp[1].seed = <<32768, 0>>
    /\ resp[2].seed = resp[1].seed

(***************************************************************************)
(* POST /api/upload-audio and the client's handleOK: the audio is stored   *)
(* in the Drive folder, a recordings row is written, and only then the     *)
(* client posts the completion.                                            *)
(***************************************************************************)
MaxUploads == 2

\* supabaseRecordId when the recordings insert failed
NullRecordId == 0

\* r is a request of kind op
IsOp(r, op) == "op" \in DOMAIN r /\ r.op = op

\* `audio-recording-${timestamp}.${fileExtension}`: the name is made of the
\* time of the request
FileNameAt(timestamp) == timestamp

\* variant: a file of the same name is replaced
DriveCreateReplacing(files, file) ==
    IF \E i \in DOMAIN files : files[i].name = file.name
    THEN [i \in DOMAIN files |-> IF files[i].name = file.name THEN file ELSE files[i]]
    ELSE Append(files, file)

\* drive.files.create: a new file with a new id, whatever its name
DriveCreate(files, file) == Append(files, file)

\* the row inserted into recordings
RecordingRow(request, fileId, fileName) ==
    [script_id |-> request.originalRowIndex, script_text |-> "text",
     google_drive_link |-> fileId, file_name |-> fileName,
     user_identifier |-> request.userIdentifier, recorded_at |-> now]

\* the request is parsed and the file is created in the Drive folder; the
\* token request or the creation may fail (created = FALSE)
UploadCreate(c, audioFile, originalRowIndex, created) ==
    /\ pc[c] = "idle"
    /\ req[c] = None
    /\ Len(drive) < MaxUploads
    /\ LET request == [op |-> "upload", originalRowIndex |-> originalRowIndex,
                       userIdentifier |-> users[1].username]
           fileName == FileNameAt(now)
       IN  IF ~audioFile
           THEN /\ Reply(c, request, BadRequest400("No audio file provided"))
                /\ UNCHANGED drive
           ELSE IF ~created
           THEN /\ Reply(c, request,
                         Failure500("Failed to upload audio to Google Drive"))
                /\ UNCHANGED drive
           ELSE /\ drive' = DriveCreate(drive, [name |-> fileName, body |-> c])
                /\ Await(c, "uploadInsert", request,
                         [fileId |-> Len(drive'), fileName |-> fileName])
    /\ UNCHANGED <<tab, users, sheet, now, start, recordings, accepted, ghostVars>>

\* variant: a failed recordings insert fails the upload
UploadResponseStrict(inserted, fileId, fileName, recordId) ==
    IF inserted
    THEN [status |-> 200, success |-> TRUE, fileId |-> fileId,
          fileName |-> fileName, supabaseRecordId |-> recordId]
    ELSE Failure500("Failed to upload audio to Google Drive")

\* the response after the file was created: supabaseRecordId is the id of the
\* inserted row, or null if the insert failed
UploadResponse(inserted, fileId, fileName, recordId) ==
    [status |-> 200, success |-> TRUE, fileId |-> fileId, fileName |-> fileName,
     supabaseRecordId |-> IF inserted THEN recordId ELSE NullRecordId]

\* the recordings insert, whose failure is logged and not reported, and the
\* response
UploadInsert(c, inserted) ==
    /\ pc[c] = "uploadInsert"
    /\ recordings' = IF inserted
                     THEN Append(recordings,
                                 RecordingRow(req[c], loc[c].fileId, loc[c].fileName))
                     ELSE recordings
    /\ Reply(c, req[c],
             UploadResponse(inserted, loc[c].fileId, loc[c].fileName,
                            Len(recordings')))
    /\ UNCHANGED <<tab, users, sheet, now, start, drive, accepted, ghostVars>>

\* handleOK after the upload's response: response.ok, the client goes on
\* holding the request's row index and the response
HandleOKUploaded(c) ==
    /\ pc[c] = "done"
    /\ IsOp(req[c], "upload")
    /\ resp[c].status = 200
    /\ pc' = [pc EXCEPT ![c] = "idle"]
    /\ UNCHANGED <<dbVars, req, loc, resp, accepted, ghostVars>>

\* handleOK after a failed upload (throw new Error) or after the completion's
\* response
HandleOKEnd(c) ==
    /\ pc[c] = "done"
    /\ IsOp(req[c], "upload") => resp[c].status # 200
    /\ Return(c)

\* handleOK's POST /api/user-progress for the row it uploaded
HandleOKProgress(c, sessionId) ==
    /\ IsOp(req[c], "upload")
    /\ RecordLoad(c, 1, req[c].originalRowIndex, sessionId)

UploadInit ==
    /\ now = 0
    /\ sheet = SheetRows
    /\ drive = <<>>
    /\ recordings = <<>>
    /\ tab = MountedTab
    /\ \E row \in {RaceRowAtLevel1("s1"), RaceRowInLevel2("s1")} : users = <<row>>
    /\ start = users
    /\ pc = [c \in Clients |-> "idle"]
    /\ req = [c \in Clients |-> None]
    /\ loc = [c \in Clients |-> None]
    /\ resp = [c \in Clients |-> None]
    /\ accepted = 0
    /\ lastPrompt = NoPrompts
    /\ gpCall = [c \in Clients |-> None]

UploadNext ==
    \/ \E c \in Clients, audioFile \in BOOLEAN, row \in RequestRowIndices,
          created \in BOOLEAN : UploadCreate(c, audioFile, row, created)
    \/ \E c \in Clients, inserted \in BOOLEAN : UploadInsert(c, inserted)
    \/ \E c \in Clients : HandleOKUploaded(c)
    \/ \E c \in Clients, s \in Sessions : HandleOKProgress(c, s)
    \/ \E c \in Clients : RecordUpdate(c)
    \/ \E c \in Clients : HandleOKEnd(c)

SpecUpload == UploadInit /\ [][UploadNext]_vars

\* C18, as stated: whoever holds the answer of a successful upload has a
\* recordings row for the stored file.
EveryUploadHasRecording ==
    \A c \in Clients :
        (IsOp(req[c], "upload") /\ pc[c] \in {"done", "idle"} /\ resp[c].status = 200)
        => \E i \in DOMAIN recordings :
               recordings[i].google_drive_link = resp[c].fileId

\* C18: a completion is posted only by a client that holds the answer of a
\* successful upload whose file is in the folder; an upload answers success
\* only with its file stored and, if it reports a record id, with the row
\* that links the file; and no step, whatever a completion answers, removes
\* or changes a stored file or a recordings row.
StorageSurvivesBookkeeping ==
    [][/\ \A c \in Clients :
             (IsOp(req'[c], "record") /\ ~IsOp(req[c], "record"))
             => /\ IsOp(req[c], "upload")
                /\ resp[c].status = 200
                /\ resp[c].fileId \in DOMAIN drive
       /\ \A c \in Clients :
             (pc[c] = "uploadInsert" /\ pc'[c] = "done")
             => /\ resp'[c].fileId \in DOMAIN drive'
                /\ drive'[resp'[c].fileId].body = c
                /\ resp'[c].supabaseRecordId # NullRecordId
                   => /\ resp'[c].supabaseRecordId \in DOMAIN recordings'
                      /\ recordings'[resp'[c].supabaseRecordId].google_drive_link
                             = resp'[c].fileId
       /\ \A i \in DOMAIN drive : i \in DOMAIN drive' /\ drive'[i] = drive[i]
       /\ \A i \in DOMAIN recordings :
             i \in DOMAIN recordings' /\ recordings'[i] = recordings[i]]_vars

\* C18 witness: two uploads for the user raced, both files and both rows are
\* there, and of the two completions one was accepted and the other failed.
BothRecordingsAfterRace ==
    /\ Len(drive) = 2 /\ drive[1].body # drive[2].body
    /\ Len(recordings) = 2
    /\ recordings[1].google_drive_link # recordings[2].google_drive_link
    /\ \A c \in Clients : pc[c] = "done" /\ IsOp(req[c], "record")
    /\ \E c, d \in Clients : IsAccepted(resp[c]) /\ resp[d].status = 500

(***************************************************************************)
(* One client working through a level: it asks for the next script of the  *)
(* user's level, then posts the completion of the script it was given, and *)
(* so on.  The sheet has the sparse levels of SheetRows, or a second level  *)
(* with no script at all, for which no order is ever stored.               *)
(***************************************************************************)
SparseSheets == {SheetRows, [text |-> {2}, space |-> {1, 51, 101}]}

\* a new user, and a user who has just completed level 1
SparseStartRows ==
    {NewUserRow(<<97>>, "s1"),
     ProgressUpdate(RaceRowAtLevel1("s1"), [originalRowIndex |-> 2, sessionId |-> "s1"],
                    SelectProgress(RaceRowAtLevel1("s1")))}

SparseInit ==
    /\ now = 0
    /\ sheet \in SparseSheets
    /\ drive = <<>>
    /\ recordings = <<>>
    /\ tab = MountedTab
    /\ \E row \in SparseStartRows : users = <<row>>
    /\ start = users
    /\ pc = [c \in Clients |-> "idle"]
    /\ req = [c \in Clients |-> None]
    /\ loc = [c \in Clients |-> None]
    /\ resp = [c \in Clients |-> None]
    /\ accepted = 0
    /\ lastPrompt = NoPrompts
    /\ gpCall = [c \in Clients |-> None]

\* the client asks for the next script of the user's level
SparsePrompt ==
    /\ req[1] = None
    /\ users[1].current_level <= MaxLevel
    /\ LevelScriptsLoad(1, 1, users[1].current_level)

\* the client has read the answer and shows the script
SparsePromptShown ==
    /\ pc[1] = "done"
    /\ IsOp(req[1], "levelScripts")
    /\ pc' = [pc EXCEPT ![1] = "idle"]
    /\ UNCHANGED <<dbVars, req, loc, resp, accepted, ghostVars>>

\* the client posts the completion of the script it was given (of row 2 if
\* the answer named no script)
SparseComplete ==
    /\ IsOp(req[1], "levelScripts")
    /\ RecordLoad(1, 1,
                  IF "originalRowIndex" \in DOMAIN resp[1]
                  THEN resp[1].originalRowIndex ELSE 2,
                  "s1")

SparseReturn ==
    /\ IsOp(req[1], "record")
    /\ Return(1)

SparseNext ==
    \/ SparsePrompt
    \/ LevelScriptsStore(1)
    \/ SparsePromptShown
    \/ SparseComplete
    \/ RecordUpdate(1)
    \/ SparseReturn
    \/ Tick

SpecSparse == SparseInit /\ [][SparseNext]_vars

\* C19: with a stored order of n scripts, n below 50, fewer than n are
\* completed; the accepted completion that makes it n, and no other,
\* reports levelComplete, raises the level by one and resets the count, and
\* every other accepted completion adds one to the count; a count of 50
\* scripts per level is used only by a completion that read no stored order.
SparseLevelsTerminate ==
    /\ [](users[1].level_script_order # NullOrder
          => /\ Len(users[1].level_script_order) < scriptsPerLevel
             /\ users[1].scripts_completed_in_level < Len(users[1].level_script_order))
    /\ [][(pc[1] = "recordUpdate" /\ pc'[1] = "done" /\ IsAccepted(resp'[1]))
          => LET user == users[1]
                 n == Len(user.level_script_order)
                 total == IF user.level_script_order # NullOrder THEN n
                          ELSE FallbackScriptsPerLevel
                 last == user.scripts_completed_in_level + 1 = total
             IN  /\ resp'[1].levelComplete = last
                 /\ users'[1].current_level =
                        IF last THEN user.current_level + 1 ELSE user.current_level
                 /\ users'[1].scripts_completed_in_level =
                        IF last THEN 0 ELSE user.scripts_completed_in_level + 1]_vars

\* C19 witness: the user started level 2 with no order, was given the two
\* scripts of the level, and the second accepted completion ended the level.
LevelOfTwoScriptsDone ==
    /\ start[1].current_level = 2 /\ start[1].level_script_order = NullOrder
    /\ accepted = 2
    /\ users[1].current_level = 3
    /\ pc[1] = "done" /\ IsOp(req[1], "record")
    /\ IsAccepted(resp[1]) /\ resp[1].levelComplete

\* C20: the level, the completed count and the version of a user change only
\* in the step in which a completion's conditional update is applied to
\* that user.
ProgressChangesOnlyByCompletion ==
    [][\A i \in DOMAIN users :
          ( \/ users'[i].current_level # users[i].current_level
            \/ users'[i].scripts_completed_in_level # users[i].scripts_completed_in_level
            \/ users'[i].version # users[i].version )
          => \E c \in Clients :
                 /\ pc[c] = "recordUpdate" /\ pc'[c] = "done"
                 /\ req[c].userId = i]_vars

\* C21: an upload whose file was created answers success, with the file
\* still in the folder, and with no record id exactly if its recordings
\* insert wrote nothing; an upload that answers in its first step (no audio,
\* or the file could not be created) answers failure and writes neither a file
\* nor a recordings row; and a recordings row is written only by an upload
\* whose file is in the folder, and links that file.
UploadToleratesInsertFailure ==
    [][/\ \A c \in Clients :
             (pc[c] = "uploadInsert" /\ pc'[c] = "done")
             => /\ resp'[c].status = 200 /\ resp'[c].success
                /\ drive' = drive
                /\ resp'[c].fileId \in DOMAIN drive'
                /\ (resp'[c].supabaseRecordId = NullRecordId)
                       <=> (recordings' = recordings)
       /\ \A c \in Clients :
             (pc[c] = "idle" /\ pc'[c] = "done" /\ IsOp(req'[c], "upload"))
             => /\ resp'[c].status \in {400, 500} /\ ~resp'[c].success
                /\ drive' = drive
                /\ recordings' = recordings
       /\ recordings' # recordings
          => \E c \in Clients :
                 /\ pc[c] = "uploadInsert"
                 /\ loc[c].fileId \in DOMAIN drive
                 /\ recordings' = Append(recordings, recordings'[Len(recordings')])
                 /\ recordings'[Len(recordings')].google_drive_link = loc[c].fileId]_vars

\* C21 witness: one upload answered success with no record id, its file
\* stored and no recordings row; the other upload failed and left nothing.
UploadWithoutRecordAndFailedUpload ==
    \E c, d \in Clients :
        /\ pc[c] = "done" /\ IsOp(req[c], "upload")
        /\ resp[c].status = 200 /\ resp[c].supabaseRecordId = NullRecordId
        /\ Len(drive) = 1 /\ drive[resp[c].fileId].body = c
        /\ recordings = <<>>
        /\ pc[d] = "done" /\ IsOp(req[d], "upload") /\ resp[d].status = 500

(***************************************************************************)
(* The AudioCollector component of one browser tab with session s1: the    *)
(* login (handleUsernameSubmit), handleOK (first slot of the tab) and the   *)
(* session poll (second slot), while another device may log the same user  *)
(* in under session s2.  The fetches of scripts are left out: they carry   *)
(* no session id and touch neither isSessionValid nor the timer.           *)
(***************************************************************************)
\* clearInterval(sessionCheckIntervalRef.current)
ClearSessionCheckInterval(t) ==
    IF t.sessionCheckIntervalRef = "running"
    THEN [t EXCEPT !.intervals = @ - 1, !.sessionCheckIntervalRef = "cleared"]
    ELSE t

\* startSessionValidation: clear the interval the ref holds, set a new one
startSessionValidation(t) ==
    [ClearSessionCheckInterval(t) EXCEPT !.intervals = @ + 1,
                                         !.sessionCheckIntervalRef = "running"]

\* setIsSessionValid(false), clearInterval and sessionCheckIntervalRef.current
\* = null, as after an inactive poll
MarkInvalidAndStop(t) ==
    [ClearSessionCheckInterval(t) EXCEPT !.isSessionValid = FALSE,
                                         !.sessionCheckIntervalRef = "null"]

\* the slot has read its response
SlotFree(c) ==
    /\ pc' = [pc EXCEPT ![c] = "idle"]
    /\ req' = [req EXCEPT ![c] = None]
    /\ resp' = [resp EXCEPT ![c] = None]
    /\ UNCHANGED <<users, sheet, now, start, blobVars, loc, accepted, ghostVars>>

\* handleUsernameSubmit: the fetch of /api/user-progress
TabLogin ==
    /\ tab.mounted
    /\ tab.showUsernameModal
    /\ req[1] = None
    /\ ResolveLookup(1, <<97>>, "s1")

\* handleUsernameSubmit after the response
TabLoginResult ==
    /\ pc[1] = "done"
    /\ IsOp(req[1], "resolve")
    /\ tab' = IF resp[1].status = 200
              THEN [startSessionValidation(tab) EXCEPT !.isSessionValid = TRUE,
                                                       !.showUsernameModal = FALSE]
              ELSE tab
    /\ SlotFree(1)

\* handleOK up to the upload's first await
TabHandleOK(created) ==
    /\ tab.mounted
    /\ ~tab.showUsernameModal
    /\ tab.isSessionValid
    /\ UploadCreate(1, TRUE, 2, created)

\* handleOK after a failed upload
TabUploadFailed ==
    /\ IsOp(req[1], "upload")
    /\ HandleOKEnd(1)

\* handleOK after the response of POST /api/user-progress
TabProgressResult ==
    /\ pc[1] = "done"
    /\ IsOp(req[1], "record")
    /\ LET invalidated == /\ "error" \in DOMAIN resp[1]
                          /\ resp[1].error = "SESSION_INVALIDATED"
       IN  tab' = IF resp[1].status = 200
                  THEN IF invalidated THEN MarkInvalidAndStop(tab) ELSE tab
                  ELSE IF invalidated THEN [tab EXCEPT !.isSessionValid = FALSE]
                  ELSE tab
    /\ SlotFree(1)

\* the interval's callback: checkSessionValidity up to its await
TabPoll ==
    /\ tab.intervals > 0
    /\ CheckSessionLoad(2, 1, "s1")

\* checkSessionValidity after the response
TabPollResult ==
    /\ pc[2] = "done"
    /\ tab' = IF resp[2].success /\ ~resp[2].isActive
              THEN MarkInvalidAndStop(tab) ELSE tab
    /\ SlotFree(2)

\* the cleanup of the effect
TabUnmount ==
    /\ tab.mounted
    /\ tab' = [ClearSessionCheckInterval(tab) EXCEPT !.mounted = FALSE]
    /\ UNCHANGED <<users, sheet, now, start, blobVars, pc, req, loc, resp,
                   accepted, ghostVars>>

\* another device logs the user in under session s2 (lookup and update)
OtherDeviceLogin ==
    /\ users # <<>>
    /\ users[1].session_id # "s2"
    /\ users' = [users EXCEPT ![1] = SessionTakeover(@, "s2")]
    /\ UNCHANGED <<sheet, now, start, blobVars, tab, pc, req, loc, resp,
                   accepted, ghostVars>>

TabInit ==
    /\ now = 0
    /\ sheet = SheetRows
    /\ drive = <<>>
    /\ recordings = <<>>
    /\ tab = MountedTab
    /\ users \in {<<>>, <<RaceRowAtLevel1("s2")>>}
    /\ start = users
    /\ pc = [c \in Clients |-> "idle"]
    /\ req = [c \in Clients |-> None]
    /\ loc = [c \in Clients |-> None]
    /\ resp = [c \in Clients |-> None]
    /\ accepted = 0
    /\ lastPrompt = NoPrompts
    /\ gpCall = [c \in Clients |-> None]

TabNext ==
    \/ TabLogin
    \/ ResolveUpdate(1)
    \/ ResolveInsert(1)
    \/ TabLoginResult
    \/ \E created \in BOOLEAN : TabHandleOK(created)
    \/ \E inserted \in BOOLEAN : UploadInsert(1, inserted)
    \/ TabUploadFailed
    \/ HandleOKUploaded(1)
    \/ HandleOKProgress(1, "s1")
    \/ RecordUpdate(1)
    \/ TabProgressResult
    \/ TabPoll
    \/ CheckSessionTouch(2)
    \/ TabPollResult
    \/ TabUnmount
    \/ OtherDeviceLogin

SpecTab == TabInit /\ [][TabNext]_vars

\* an invalid session has no poll timer running
InvalidSessionHasNoTimer == tab.isSessionValid \/ tab.intervals = 0

\* a poll answered inactive, or a completion answered SESSION_INVALIDATED,
\* marks the session invalid
RejectionMarksInvalid ==
    [][/\ (pc[2] = "done" /\ pc'[2] = "idle" /\ resp[2].success /\ ~resp[2].isActive)
          => ~tab'.isSessionValid
       /\ ( /\ pc[1] = "done" /\ pc'[1] = "idle" /\ IsOp(req[1], "record")
            /\ "error" \in DOMAIN resp[1] /\ resp[1].error = "SESSION_INVALIDATED" )
          => ~tab'.isSessionValid]_vars

\* no upload and no completion is issued with the session marked invalid
NoRequestWhenInvalid ==
    [][(pc[1] = "idle" /\ pc'[1] # "idle"
        /\ (IsOp(req'[1], "upload") \/ IsOp(req'[1], "record")))
       => tab.isSessionValid]_vars

\* the session becomes valid again only by the answer of a login
ValidAgainOnlyByLogin ==
    [][(~tab.isSessionValid /\ tab'.isSessionValid)
       => (pc[1] = "done" /\ IsOp(req[1], "resolve") /\ resp[1].status = 200)]_vars

\* at most one poll timer runs, and none after unmount
AtMostOneTimer == tab.intervals <= 1 /\ (~tab.mounted => tab.intervals = 0)

\* C22: once a poll is answered inactive or a completion SESSION_INVALIDATED,
\* the client marks the session invalid and stops its poll timer, and issues
\* no upload and no completion while the session is invalid; the session
\* becomes valid again only by a login; at most one poll timer runs at a
\* time, and none after unmount.
InvalidSessionStaysDead ==
    /\ []InvalidSessionHasNoTimer
    /\ RejectionMarksInvalid
    /\ NoRequestWhenInvalid
    /\ ValidAgainOnlyByLogin
    /\ []AtMostOneTimer

\* C23: a completion, a session check or a request for the next script that
\* passes validation and names a user id with no row is answered not found
\* (404), and changes no row.
MissingUserReportedNotFound ==
    [][\A c \in Clients :
          ( /\ pc[c] = "idle" /\ pc'[c] = "done"
            /\ \/ IsOp(req'[c], "record") /\ req'[c].originalRowIndex # Undefined
               \/ IsOp(req'[c], "checkSession") /\ req'[c].sessionId # NoSession
               \/ IsOp(req'[c], "levelScripts")
            /\ req'[c].userId # MissingUserId
            /\ req'[c].userId \notin DOMAIN users )
          => /\ resp'[c].status = 404
             /\ users' = users]_vars

(***************************************************************************)
(* Two runs of a completion: users "b" and "c" hold the same progress (the *)
(* orders of their levels coincide), client 1 records a completion for the *)
(* first and client 2 for the second, with the same session and any        *)
(* submitted index.                                                        *)
(***************************************************************************)
IndexUsernames == <<(<<98>>), (<<99>>)>>

\* originalRowIndex values a client can submit: 0, rows of either level
SubmittedIndices == {0, 2, 51, 53}

\* the row of username with session s at level 1 with its order, at level 2
\* with its order, and one completion later
IndexRowAt(username, s, stage) ==
    LET atLevel1 == StoreOrder(NewUserRow(username, s), FreshOrder(username, 1), 1)
        atLevel2 == StoreOrder(ProgressUpdate(atLevel1,
                                   [originalRowIndex |-> 2, sessionId |-> s],
                                   SelectProgress(atLevel1)),
                               FreshOrder(username, 2), 2)
        inLevel2 == ProgressUpdate(atLevel2,
                                   [originalRowIndex |-> atLevel2.level_script_order[1],
                                    sessionId |-> s],
                                   SelectProgress(atLevel2))
    IN  CASE stage = 1 -> atLevel1
          [] stage = 2 -> atLevel2
          [] OTHER -> inLevel2

IndexInit ==
    /\ now = 0
    /\ sheet = SheetRows
    /\ drive = <<>>
    /\ recordings = <<>>
    /\ tab = MountedTab
    /\ \/ users = <<>>
       \/ \E s \in Sessions, stage \in 1..3 :
              users = [id \in 1..2 |-> IndexRowAt(IndexUsernames[id], s, stage)]
    /\ start = users
    /\ pc = [c \in Clients |-> "idle"]
    /\ req = [c \in Clients |-> None]
    /\ loc = [c \in Clients |-> None]
    /\ resp = [c \in Clients |-> None]
    /\ accepted = 0
    /\ lastPrompt = NoPrompts
    /\ gpCall = [c \in Clients |-> None]

\* client c records a completion for user c; both runs present the same session
IndexLoad(c, originalRowIndex, sessionId) ==
    /\ \A d \in Clients \ {c} : req[d] # None => req[d].sessionId = sessionId
    /\ RecordLoad(c, c, originalRowIndex, sessionId)

IndexNext ==
    \/ \E c \in Clients, row \in SubmittedIndices, s \in Sessions \cup {NoSession} :
           IndexLoad(c, row, s)
    \/ \E c \in Clients : RecordUpdate(c)

SpecIndex == IndexInit /\ [][IndexNext]_vars

\* the progress a completion decides: level, completed count, order, version
ProgressOf(row) ==
    <<row.current_level, row.scripts_completed_in_level, row.level_script_order,
      row.version>>

\* C24: two completions from the same user state that differ only in the
\* submitted index are both accepted or both rejected (with the same status),
\* and leave the same level, completed count, order and version.
IndexDoesNotDecideProgress ==
    (pc[1] = "done" /\ pc[2] = "done")
    => /\ IsAccepted(resp[1]) = IsAccepted(resp[2])
       /\ resp[1].status = resp[2].status
       /\ users # <<>> => ProgressOf(users[1]) = ProgressOf(users[2])

\* both runs are accepted; one submitted the next index of the order, the
\* other an index that is not in the order at all
AcceptedWithExpectedAndForeignIndex ==
    /\ pc[1] = "done" /\ pc[2] = "done"
    /\ IsAccepted(resp[1]) /\ IsAccepted(resp[2])
    /\ start[1].level_script_order # NullOrder
    /\ req[1].originalRowIndex
           = start[1].level_script_order[start[1].scripts_completed_in_level + 1]
    /\ \A k \in 1..Len(start[2].level_script_order) :
           req[2].originalRowIndex # start[2].level_script_order[k]
    /\ ProgressOf(users[1]) # ProgressOf(start[1])

\* a step in which client c's request for the next script is answered after
\* the order was resolved: from the stored order, or from the fresh one
AnswersFromOrder(c) ==
    /\ pc'[c] = "done"
    /\ IsOp(req'[c], "levelScripts")
    /\ \/ pc[c] = "levelStore"
       \/ /\ pc[c] = "idle"
          /\ req'[c].userId \in DOMAIN users
          /\ ReuseStoredOrder(users[req'[c].userId], req'[c].level)

\* the order and the index that step serves from
ResolvedOrder(c) ==
    IF pc[c] = "levelStore" THEN loc[c].scriptOrder
    ELSE users[req'[c].userId].level_script_order
ResolvedIndex(c) ==
    IF pc[c] = "levelStore" THEN loc[c].scripts_completed_in_level
    ELSE users[req'[c].userId].scripts_completed_in_level

\* C25: with idx the completed count read and order the resolved order, the
\* answer is levelComplete without text when idx >= length(order), and else
\* the text of row order[idx] with that row as originalRowIndex, idx as
\* scriptIndexInLevel and length(order) as totalScriptsInLevel.
NextPromptShape ==
    [][\A c \in Clients :
          AnswersFromOrder(c)
          => LET order == ResolvedOrder(c)
                 idx == ResolvedIndex(c)
                 body == resp'[c]
             IN  IF idx >= Len(order)
                 THEN /\ body.status = 200
                      /\ body.levelComplete
                      /\ body.scriptText = ""
                 ELSE /\ body.status = 200
                      /\ body.scriptText = CellOf(sheet, order[idx + 1])
                      /\ body.scriptText # ""
                      /\ body.originalRowIndex = order[idx + 1]
                      /\ body.scriptIndexInLevel = idx
                      /\ body.totalScriptsInLevel = Len(order)]_vars

\* one client holds the second script of a level of two, the other the
\* answer that a level is complete
SecondPromptAndLevelCompleteServed ==
    \E c, d \in Clients :
        /\ pc[c] = "done" /\ IsOp(req[c], "levelScripts")
        /\ resp[c].status = 200
        /\ "scriptIndexInLevel" \in DOMAIN resp[c]
        /\ resp[c].scriptIndexInLevel = 1
        /\ resp[c].totalScriptsInLevel = 2
        /\ pc[d] = "done" /\ IsOp(req[d], "levelScripts")
        /\ resp[d].status = 200
        /\ resp[d].levelComplete
        /\ resp[d].scriptText = ""

\* C26: an answer of get-level-scripts that carries a script text does not
\* report levelComplete.
PromptTextNeverWithLevelComplete ==
    \A c \in Clients :
        ( /\ pc[c] = "done"
          /\ IsOp(req[c], "levelScripts")
          /\ "scriptText" \in DOMAIN resp[c]
          /\ resp[c].scriptText # "" )
        => ~resp[c].levelComplete

\* C27: get-level-scripts takes the fresh path exactly when the user has no
\* stored order or a current_level other than the requested level (and the
\* level has a script); the update of that path stores exactly the non-blank
\* rows of the level's range, each once, together with current_level = level,
\* and changes nothing else; a call that reuses the stored order, like every
\* other first step of the handler, writes nothing.
FreshPathStoresNonBlankRows ==
    [][\A c \in Clients :
          /\ (pc[c] = "idle" /\ IsOp(req'[c], "levelScripts"))
             => LET id == req'[c].userId
                    level == req'[c].level
                IN  /\ users' = users
                    /\ id \in DOMAIN users
                       => (pc'[c] = "levelStore"
                           <=> /\ ~ReuseStoredOrder(users[id], level)
                               /\ NonBlankRows(level) # {})
          /\ (pc[c] = "levelStore" /\ pc'[c] = "done")
             => LET id == req[c].userId
                    level == req[c].level
                IN  /\ IsPermutationOf(users'[id].level_script_order,
                                       NonBlankRows(level))
                    /\ users'[id].current_level = level
                    /\ users' = [users EXCEPT ![id] =
                           [@ EXCEPT !.level_script_order = users'[id].level_script_order,
                                     !.current_level = level]]]_vars

\* the user, who never completed a script, was given level 2: the order holds
\* rows 51 and 53 of a range whose other rows are blank
FreshOrderOfLevelTwoStored ==
    /\ users # <<>>
    /\ users[1].version = 0
    /\ users[1].current_level = 2
    /\ Len(users[1].level_script_order) = 2
    /\ IsPermutationOf(users[1].level_script_order, {51, 53})
    /\ \E c \in Clients :
           /\ pc[c] = "done" /\ IsOp(req[c], "levelScripts") /\ req[c].level = 2
           /\ resp[c].status = 200

(***************************************************************************)
(* Levels without a script: the clients ask for the scripts of levels 1    *)
(* and 2 on sheets whose second level is white space only, or empty.       *)
(***************************************************************************)
BlankSheets ==
    {SheetRows, [text |-> {2}, space |-> {1, 51}], [text |-> {2}, space |-> {1}]}

BlankInit ==
    /\ now = 0
    /\ sheet \in BlankSheets
    /\ drive = <<>>
    /\ recordings = <<>>
    /\ tab = MountedTab
    /\ \E row \in SparseStartRows : users = <<row>>
    /\ start = users
    /\ pc = [c \in Clients |-> "idle"]
    /\ req = [c \in Clients |-> None]
    /\ loc = [c \in Clients |-> None]
    /\ resp = [c \in Clients |-> None]
    /\ accepted = 0
    /\ lastPrompt = NoPrompts
    /\ gpCall = [c \in Clients |-> None]

BlankNext ==
    \/ \E c \in Clients, level \in RequestLevels : LevelScriptsLoad(c, 1, level)
    \/ \E c \in Clients : LevelScriptsStore(c)
    \/ \E c \in Clients : Return(c)

SpecBlank == BlankInit /\ [][BlankNext]_vars

\* C28: a request for a level with no order to reuse whose range holds no
\* script (no cell at all, or empty and white-space cells only) is answered
\* 404 with no scripts found, and leaves the users table as it was: no order
\* is stored and current_level is not overwritten.
BlankLevelLeavesRowUnchanged ==
    [][\A c \in Clients :
          ( /\ pc[c] = "idle"
            /\ IsOp(req'[c], "levelScripts")
            /\ req'[c].userId \in DOMAIN users
            /\ ~ReuseStoredOrder(users[req'[c].userId], req'[c].level)
            /\ NonBlankRows(req'[c].level) = {} )
          => /\ pc'[c] = "done"
             /\ resp'[c].status = 404
             /\ resp'[c].error =
                    IF \A r \in startScriptRow(req'[c].level)..endScriptRow(req'[c].level) :
                           CellOf(sheet, r) = ""
                    THEN "No scripts found for level"
                    ELSE "No valid scripts found for level"
             /\ users' = users]_vars

\* the user at level 1 asked for level 2, whose only cell is white space:
\* the answer is 404 and the row is the one the behaviour started with
BlankLevelTwoRefused ==
    \E c \in Clients :
        /\ pc[c] = "done" /\ IsOp(req[c], "levelScripts") /\ req[c].level = 2
        /\ resp[c].status = 404
        /\ resp[c].error = "No valid scripts found for level"
        /\ users = start
        /\ users[1].current_level = 1
        /\ users[1].level_script_order = NullOrder

(***************************************************************************)
(* The range of a level: each client computes the first and the last row   *)
(* of the level of its request.                                            *)
(***************************************************************************)
MaxRangeLevel == 8
RangeLevels == 1..MaxRangeLevel

RangeInit ==
    /\ now = 0
    /\ sheet = SheetRows
    /\ drive = <<>>
    /\ recordings = <<>>
    /\ tab = MountedTab
    /\ users = <<>>
    /\ start = users
    /\ pc = [c \in Clients |-> "idle"]
    /\ req = [c \in Clients |-> None]
    /\ loc \in [Clients -> [level : RangeLevels]]
    /\ resp = [c \in Clients |-> None]
    /\ accepted = 0
    /\ lastPrompt = NoPrompts
    /\ gpCall = [c \in Clients |-> None]

RangeCall(c) ==
    /\ pc[c] = "idle"
    /\ pc' = [pc EXCEPT ![c] = "done"]
    /\ req' = [req EXCEPT ![c] = [op |-> "range", level |-> loc[c].level]]
    /\ resp' = [resp EXCEPT ![c] =
                   [status |-> 200,
                    startScriptRow |-> startScriptRow(loc[c].level),
                    endScriptRow |-> endScriptRow(loc[c].level)]]
    /\ UNCHANGED <<dbVars, loc, accepted, ghostVars>>

RangeNext == \E c \in Clients : RangeCall(c)

SpecRange == RangeInit /\ [][RangeNext]_vars

\* C29: the range of level n is rows (n-1)*50 + 1 to n*50; the ranges of two
\* different levels share no row, and the ranges of levels 1..n together are
\* rows 1..50*n.
RangesPartitionRows ==
    \A c \in Clients :
        pc[c] = "done"
        => LET n == req[c].level
           IN  /\ resp[c].startScriptRow = (n - 1) * 50 + 1
               /\ resp[c].endScriptRow = n * 50
               /\ \A d \in Clients :
                     (pc[d] = "done" /\ req[d].level # n)
                     => (resp[c].startScriptRow..resp[c].endScriptRow)
                            \cap (resp[d].startScriptRow..resp[d].endScriptRow) = {}
               /\ UNION {startScriptRow(l)..endScriptRow(l) : l \in 1..n}
                      = 1..(50 * n)
               /\ \A l, m \in 1..n :
                     l # m => (startScriptRow(l)..endScriptRow(l))
                                  \cap (startScriptRow(m)..endScriptRow(m)) = {}

\* the ranges of levels 2 and 3 were computed: rows 51..100 and 101..150
RangesOfLevelsTwoAndThree ==
    /\ pc[1] = "done" /\ pc[2] = "done"
    /\ req[1].level = 2 /\ req[2].level = 3
    /\ resp[1].startScriptRow = 51 /\ resp[1].endScriptRow = 100
    /\ resp[2].startScriptRow = 101 /\ resp[2].endScriptRow = 150

\* C30: scripts_completed_in_level of a row changes only in the update of an
\* accepted completion for that user, and then either by +1 or to 0 together
\* with current_level + 1; while current_level stays, it does not decrease.
CompletedCountChangesOnlyByCompletion ==
    [][\A id \in DOMAIN users :
          LET old == users[id]
              new == users'[id]
          IN  /\ new.current_level = old.current_level
                 => new.scripts_completed_in_level >= old.scripts_completed_in_level
              /\ new.scripts_completed_in_level # old.scripts_completed_in_level
                 => /\ \E c \in Clients :
                          /\ pc[c] = "recordUpdate" /\ pc'[c] = "done"
                          /\ req[c].userId = id
                          /\ IsAccepted(resp'[c])
                    /\ \/ new.scripts_completed_in_level
                              = old.scripts_completed_in_level + 1
                       \/ /\ new.scripts_completed_in_level = 0
                          /\ new.current_level = old.current_level + 1]_vars

\* C31: an accepted completion presented a session id, the one stored in the
\* row when the handler checked it; a request without a session id is not
\* accepted.
AcceptedCompletionPresentedSession ==
    /\ \A c \in Clients :
          (pc[c] = "done" /\ IsOp(req[c], "record") /\ IsAccepted(resp[c]))
          => req[c].sessionId # NoSession
    /\ \A c \in Clients :
          pc[c] = "recordUpdate"
          => req[c].sessionId \in {loc[c].session_id, NoSession}

(***************************************************************************)
(* POST /api/user-progress (flat counter): the progress of a user is the   *)
(* highest script id recorded, last_script_id.                             *)
(***************************************************************************)
MaxScriptId == 3
LegacyScriptIds == 0..MaxScriptId

\* variant: a script id equal to the stored one is written again
shouldUpdateOrEqual(scriptId, cur) == scriptId >= cur.last_script_id

\* const shouldUpdate = scriptId > (currentUser.last_script_id || 0)
shouldUpdate(scriptId, cur) == scriptId > cur.last_script_id

\* .select('id, last_script_id, session_id, version')
SelectLegacy(row) ==
    [last_script_id |-> row.last_script_id, session_id |-> row.session_id,
     version |-> row.version]

\* request parsing, the load of the row, the session check and the guard
LegacyLoad(c, userId, scriptId, sessionId) ==
    /\ pc[c] = "idle"
    /\ LET request == [op |-> "legacyRecord", userId |-> userId,
                       scriptId |-> scriptId, sessionId |-> sessionId]
           fetched == SelectById(userId)
           cur == SelectLegacy(fetched.data[1])
       IN  IF userId = MissingUserId \/ scriptId = Undefined
           THEN Reply(c, request, BadRequest400("userId and scriptId are required"))
           ELSE IF fetched.error # ""
           THEN Reply(c, request, Failure500("Failed to update user progress"))
           ELSE IF SessionInvalidated(sessionId, cur)
           THEN Reply(c, request,
                      [status |-> 409, success |-> FALSE,
                       error |-> "SESSION_INVALIDATED",
                       currentSessionId |-> cur.session_id])
           ELSE IF ~shouldUpdate(scriptId, cur)
           THEN Reply(c, request,
                      [status |-> 200, success |-> TRUE, userId |-> userId,
                       lastScriptId |-> cur.last_script_id, skipped |-> TRUE])
           ELSE Await(c, "legacyUpdate", request, cur)
    /\ UNCHANGED <<dbVars, accepted, ghostVars>>

\* .update({ last_script_id, session_id, last_activity, version })
LegacyProgressUpdate(row, request, cur) ==
    [row EXCEPT !.last_script_id = request.scriptId,
                !.session_id = IF request.sessionId # NoSession
                               THEN request.sessionId ELSE cur.session_id,
                !.last_activity = now,
                !.version = cur.version + 1]

\* .eq('id', userId).gte('last_script_id', currentUser.last_script_id)
LegacyUpdateMatches(userId, cur) ==
    /\ userId \in DOMAIN users
    /\ users[userId].last_script_id >= cur.last_script_id

\* the response after the conditional update returned { data, error };
\* latest is the row as re-read on the conflict path
LegacyResponse(userId, scriptId, result, latest) ==
    IF result.error # ""
    THEN Failure500("Failed to update user progress")
    ELSE IF Len(result.data) = 0 \/ result.data[1].last_script_id # scriptId
    THEN [status |-> 200, success |-> TRUE, userId |-> userId,
          lastScriptId |-> latest.last_script_id, conflict |-> TRUE]
    ELSE [status |-> 200, success |-> TRUE, userId |-> userId,
          lastScriptId |-> result.data[1].last_script_id,
          version |-> result.data[1].version]

\* the conditional update, .select().single(), and the response
LegacyUpdate(c) ==
    /\ pc[c] = "legacyUpdate"
    /\ LET userId == req[c].userId
           cur == loc[c]
           matched == LegacyUpdateMatches(userId, cur)
           newRow == LegacyProgressUpdate(users[userId], req[c], cur)
           result == SingleResult(IF matched THEN <<newRow>> ELSE <<>>)
       IN  /\ users' = IF matched THEN [users EXCEPT ![userId] = newRow] ELSE users
           /\ Reply(c, req[c],
                    LegacyResponse(userId, req[c].scriptId, result, users'[userId]))
    /\ UNCHANGED <<blobVars, tab, sheet, now, start, accepted, ghostVars>>

LegacyInit ==
    /\ now = 0
    /\ sheet = SheetRows
    /\ drive = <<>>
    /\ recordings = <<>>
    /\ tab = MountedTab
    /\ users = <<NewUserRow(<<97>>, "s1")>>
    /\ start = users
    /\ pc = [c \in Clients |-> "idle"]
    /\ req = [c \in Clients |-> None]
    /\ loc = [c \in Clients |-> None]
    /\ resp = [c \in Clients |-> None]
    /\ accepted = 0
    /\ lastPrompt = NoPrompts
    /\ gpCall = [c \in Clients |-> None]

LegacyNext ==
    \/ \E c \in Clients, id \in RequestUserIds, scriptId \in LegacyScriptIds,
          s \in Sessions \cup {NoSession} : LegacyLoad(c, id, scriptId, s)
    \/ \E c \in Clients : LegacyUpdate(c)
    \/ \E c \in Clients : Return(c)
    \/ Tick

SpecLegacy == LegacyInit /\ [][LegacyNext]_vars

\* C32: last_script_id of a row never decreases.
LastScriptIdNeverDecreases ==
    [][\A id \in DOMAIN users :
          users'[id].last_script_id >= users[id].last_script_id]_vars

\* C33: an update of the flat counter whose scriptId is not greater than the
\* stored last_script_id (the row exists and the session check passes) is
\* answered with success, skipped and the stored last_script_id, and leaves
\* the users table as it was.
StaleScriptIdIsSkipped ==
    [][\A c \in Clients :
          ( /\ pc[c] = "idle"
            /\ IsOp(req'[c], "legacyRecord")
            /\ req'[c].userId \in DOMAIN users
            /\ req'[c].scriptId # Undefined
            /\ ~SessionInvalidated(req'[c].sessionId, users[req'[c].userId])
            /\ req'[c].scriptId <= users[req'[c].userId].last_script_id )
          => /\ pc'[c] = "done"
             /\ resp'[c].status = 200
             /\ resp'[c].success
             /\ "skipped" \in DOMAIN resp'[c]
             /\ resp'[c].skipped
             /\ resp'[c].lastScriptId = users[req'[c].userId].last_script_id
             /\ users' = users]_vars

\* script 1 was offered again, at a later time and by another session's
\* owner, after script 2 had been recorded: skipped, and the row still holds
\* script 2 with the version and the time of that update
StaleScriptIdSkippedLater ==
    \E c \in Clients :
        /\ pc[c] = "done" /\ IsOp(req[c], "legacyRecord")
        /\ req[c].scriptId = 1
        /\ "skipped" \in DOMAIN resp[c]
        /\ resp[c].lastScriptId = 2
        /\ users[1].last_script_id = 2
        /\ users[1].version = 1
        /\ users[1].last_activity = 0
        /\ now = 1

\* the order a fetch and shuffle for username and level yields on the sheet
\* as it is now
RecomputedOrder(username, level) ==
    seededShuffle(originalIndices(SheetValues(sheet, startScriptRow(level),
                                              endScriptRow(level)),
                                  startScriptRow(level)),
                  generateSeed(username, level))

\* C34: a stored order is the order a fetch and shuffle for the row's
\* username and current_level yields; and a call that stores a fresh order
\* for a level for which a script was served before, with no completion in
\* between, serves that script again.
RecomputationAgreesWithStoredOrder ==
    /\ [](\A id \in DOMAIN users :
             users[id].level_script_order # NullOrder
             => users[id].level_script_order
                    = RecomputedOrder(users[id].username, users[id].current_level))
    /\ [][\A c \in Clients :
             ( /\ pc[c] = "levelStore" /\ pc'[c] = "done"
               /\ gpCall[c].prev # None
               /\ "originalRowIndex" \in DOMAIN gpCall[c].prev )
             => /\ resp'[c].status = 200
                /\ resp'[c].originalRowIndex = gpCall[c].prev.originalRowIndex
                /\ resp'[c].scriptIndexInLevel = gpCall[c].prev.scriptIndexInLevel
                /\ resp'[c].totalScriptsInLevel = gpCall[c].prev.totalScriptsInLevel]_vars

\* a script of level 2 was served, the order of level 2 was then replaced by
\* the order of level 1, and a call for level 2 has fetched and shuffled
\* again: its two-script order is about to be stored
OrderOfLevelTwoRecreated ==
    \E c \in Clients :
        /\ pc[c] = "levelStore"
        /\ req[c].level = 2
        /\ gpCall[c].prev # None
        /\ "originalRowIndex" \in DOMAIN gpCall[c].prev
        /\ Len(loc[c].scriptOrder) = 2
        /\ loc[c].scriptOrder[1] = gpCall[c].prev.originalRowIndex
        /\ users[1].current_level = 1
        /\ users[1].level_script_order # NullOrder
        /\ users[1].level_script_order # loc[c].scriptOrder

(***************************************************************************)
(* GET /api/get-total-scripts: the number of scripts and of levels of the  *)
(* sheet, next to the requests for the scripts of a level.                 *)
(***************************************************************************)
maxRange == 10000

\* Math.ceil(totalScripts / scriptsPerLevel)
CeilDiv(n, d) == (n + d - 1) \div d

\* values.filter(row => row && row[0] && row[0].trim() !== '').length
CountNonEmpty(values) ==
    Cardinality({k \in 1..Len(values) : TrimIsNonEmpty(values[k])})

\* the whole handler: one read of A1:A10000 and the counts
TotalScriptsResponse(sh) ==
    LET values == SheetValues(sh, 1, maxRange)
        totalScripts == CountNonEmpty(values)
    IN  IF Len(values) = 0
        THEN [status |-> 200, success |-> TRUE, totalScripts |-> 0, totalLevels |-> 0]
        ELSE [status |-> 200, success |-> TRUE, totalScripts |-> totalScripts,
              totalLevels |-> CeilDiv(totalScripts, scriptsPerLevel),
              scriptsPerLevel |-> scriptsPerLevel]

TotalScripts(c) ==
    /\ pc[c] = "idle"
    /\ Reply(c, [op |-> "totalScripts"], TotalScriptsResponse(sheet))
    /\ UNCHANGED <<dbVars, accepted, ghostVars>>

TotalNext ==
    \/ \E c \in Clients : TotalScripts(c)
    \/ \E c \in Clients, level \in RequestLevels : LevelScriptsLoad(c, 1, level)
    \/ \E c \in Clients : LevelScriptsStore(c)
    \/ \E c \in Clients : Return(c)

SpecTotal == BlankInit /\ [][TotalNext]_vars

\* C35: a level for which get-level-scripts serves a script is at most the
\* totalLevels that get-total-scripts reports for the same sheet.
ServedLevelWithinTotalLevels ==
    \A c, d \in Clients :
        ( /\ pc[c] = "done" /\ IsOp(req[c], "totalScripts")
          /\ pc[d] = "done" /\ IsOp(req[d], "levelScripts")
          /\ resp[d].status = 200
          /\ "originalRowIndex" \in DOMAIN resp[d] )
        => req[d].level <= resp[c].totalLevels

(***************************************************************************)
(* GET /api/fetch-sheet-row: a page of limit rows from startRow; a client  *)
(* starts at row 1 and follows nextStartRow while hasMore is true.         *)
(***************************************************************************)
MaxSheetRow == 4
PageLimits == {2, 3}
NullRow == 0

\* every column A with cells in rows 1..MaxSheetRow: script, white space or
\* empty
PageSheets ==
    {[text |-> T, space |-> S] :
        <<T, S>> \in {ts \in (SUBSET (1..MaxSheetRow)) \X (SUBSET (1..MaxSheetRow)) :
                         ts[1] \cap ts[2] = {}}}

\* values.map((row, index) => ({ rowIndex: startRow + index, text })).filter(...)
RECURSIVE ScriptsFrom(_, _, _)
ScriptsFrom(values, startRow, k) ==
    IF k > Len(values) THEN <<>>
    ELSE (IF TrimIsNonEmpty(values[k])
          THEN <<[rowIndex |-> startRow + k - 1, text |-> values[k]]>>
          ELSE <<>>)
         \o ScriptsFrom(values, startRow, k + 1)

\* the whole handler: the read of A<startRow>:A<endRow> and the response
FetchSheetRowResponse(sh, startRow, limit) ==
    LET endRow == startRow + limit - 1
        values == SheetValues(sh, startRow, endRow)
        actualRowsReturned == Len(values)
        hasMore == actualRowsReturned = limit
    IN  IF Len(values) = 0
        THEN [status |-> 200, success |-> TRUE, hasMore |-> FALSE,
              scripts |-> <<>>, startRow |-> startRow, endRow |-> startRow - 1,
              nextStartRow |-> NullRow]
        ELSE [status |-> 200, success |-> TRUE, hasMore |-> hasMore,
              scripts |-> ScriptsFrom(values, startRow, 1),
              startRow |-> startRow,
              endRow |-> startRow + actualRowsReturned - 1,
              nextStartRow |-> IF hasMore THEN startRow + actualRowsReturned
                               ELSE NullRow]

\* the handler answers client c's request for its next page
FetchSheetRow(c) ==
    /\ pc[c] = "idle"
    /\ loc[c].hasMore
    /\ pc' = [pc EXCEPT ![c] = "done"]
    /\ req' = [req EXCEPT ![c] = [op |-> "fetchSheetRow",
                                  startRow |-> loc[c].nextStartRow,
                                  limit |-> loc[c].limit]]
    /\ resp' = [resp EXCEPT ![c] =
                   FetchSheetRowResponse(sheet, loc[c].nextStartRow, loc[c].limit)]
    /\ UNCHANGED <<dbVars, loc, accepted, ghostVars>>

\* the client takes the scripts of the page and the place of the next one
PageFollow(c) ==
    /\ pc[c] = "done"
    /\ IsOp(req[c], "fetchSheetRow")
    /\ pc' = [pc EXCEPT ![c] = "idle"]
    /\ loc' = [loc EXCEPT ![c] =
                  [limit |-> loc[c].limit,
                   hasMore |-> resp[c].hasMore,
                   nextStartRow |-> resp[c].nextStartRow,
                   scripts |-> loc[c].scripts \o resp[c].scripts]]
    /\ UNCHANGED <<dbVars, req, resp, accepted, ghostVars>>

PageInit ==
    /\ now = 0
    /\ sheet \in PageSheets
    /\ drive = <<>>
    /\ recordings = <<>>
    /\ tab = MountedTab
    /\ users = <<>>
    /\ start = users
    /\ pc = [c \in Clients |-> "idle"]
    /\ req = [c \in Clients |-> None]
    /\ \E limits \in [Clients -> PageLimits] :
          loc = [c \in Clients |->
                    [limit |-> limits[c], hasMore |-> TRUE, nextStartRow |-> 1,
                     scripts |-> <<>>]]
    /\ resp = [c \in Clients |-> None]
    /\ accepted = 0
    /\ lastPrompt = NoPrompts
    /\ gpCall = [c \in Clients |-> None]

PageNext ==
    \/ \E c \in Clients : FetchSheetRow(c)
    \/ \E c \in Clients : PageFollow(c)

SpecPage == PageInit /\ [][PageNext]_vars

\* C36: the scripts a client has collected carry their true row numbers and
\* texts, in ascending order without repetition, and once hasMore is false
\* they are all the non-blank rows of the sheet.
PaginationReturnsEveryRow ==
    \A c \in Clients :
        LET scripts == loc[c].scripts
        IN  /\ \A k \in 1..Len(scripts) :
                  /\ scripts[k].text = CellOf(sheet, scripts[k].rowIndex)
                  /\ k > 1 => scripts[k - 1].rowIndex < scripts[k].rowIndex
            /\ (pc[c] = "idle" /\ ~loc[c].hasMore)
               => {scripts[k].rowIndex : k \in 1..Len(scripts)} = sheet.text

(***************************************************************************)
(* seededShuffle, one iteration of its loop at a time.                     *)
(***************************************************************************)
MaxLcgLen == 4

\* arrays of every length up to MaxLcgLen
LcgArrays == {[k \in 1..n |-> k] : n \in 0..MaxLcgLen}

\* seeds below 2^31 as <<hi, lo>>: 0; the seeds whose first step yields 0 and
\* 233279; a seed near 2^31 whose first step yields 233279; 2^31 - 1; and
\* the seed of user "a" at level 1
LcgSeeds ==
    {<<0, 0>>, <<0, 22643>>, <<2, 950>>, <<32767, 56310>>, <<32767, 65535>>,
     generateSeed(<<97>>, 1)}

\* variant: the loop steps down by two
nextIndexByTwo(i) == i - 2

\* i--
nextIndex(i) == i - 1

LcgInit ==
    /\ now = 0
    /\ sheet = SheetRows
    /\ drive = <<>>
    /\ recordings = <<>>
    /\ tab = MountedTab
    /\ users = <<>>
    /\ start = users
    /\ pc = [c \in Clients |-> "idle"]
    /\ req = [c \in Clients |-> None]
    /\ \E array \in LcgArrays, seed \in LcgSeeds :
          loc = [c \in Clients |-> [array |-> array, seed |-> seed]]
    /\ resp = [c \in Clients |-> None]
    /\ accepted = 0
    /\ lastPrompt = NoPrompts
    /\ gpCall = [c \in Clients |-> None]

\* const shuffled = [...array]; let random = seed; i = shuffled.length - 1
\* (random is kept as its residue, which yields the same first step)
ShuffleEnter(c) ==
    /\ pc[c] = "idle"
    /\ pc' = [pc EXCEPT ![c] = "loop"]
    /\ req' = [req EXCEPT ![c] = [op |-> "seededShuffle"]]
    /\ loc' = [loc EXCEPT ![c] =
                  [array |-> loc[c].array, seed |-> loc[c].seed,
                   shuffled |-> loc[c].array,
                   random |-> SeedResidue(loc[c].seed),
                   i |-> Len(loc[c].array) - 1,
                   steps |-> <<>>]]
    /\ UNCHANGED <<dbVars, resp, accepted, ghostVars>>

\* one iteration: the step of the generator, the partner, the swap, i--
ShuffleStep(c) ==
    /\ pc[c] = "loop"
    /\ loc[c].i > 0
    /\ LET i == loc[c].i
           random == LcgOfResidue(loc[c].random)
           j == swapPartner(random, i)
       IN  loc' = [loc EXCEPT ![c] =
                      [@ EXCEPT !.shuffled = Swap(@, i + 1, j + 1),
                                !.random = random,
                                !.i = nextIndex(i),
                                !.steps = Append(@, [i |-> i, random |-> random,
                                                     j |-> j])]]
    /\ UNCHANGED <<dbVars, pc, req, resp, accepted, ghostVars>>

\* the loop condition fails: return shuffled
ShuffleLeave(c) ==
    /\ pc[c] = "loop"
    /\ loc[c].i <= 0
    /\ pc' = [pc EXCEPT ![c] = "done"]
    /\ resp' = [resp EXCEPT ![c] = [status |-> 200, shuffled |-> loc[c].shuffled]]
    /\ UNCHANGED <<dbVars, req, loc, accepted, ghostVars>>

LcgNext ==
    \/ \E c \in Clients : ShuffleEnter(c)
    \/ \E c \in Clients : ShuffleStep(c)
    \/ \E c \in Clients : ShuffleLeave(c)

SpecLcg == LcgInit /\ [][LcgNext]_vars

\* C37: in every iteration the state of the generator after its step is in
\* 0..233279 and the partner j is in 0..i, so both places of the swap are in
\* the array; the iterations are those of i = length-1 down to 1, each once;
\* and the array returned is the one seededShuffle yields.
LcgAndPartnerInRange ==
    \A c \in Clients :
        pc[c] \in {"loop", "done"}
        => LET n == Len(loc[c].array)
               steps == loc[c].steps
           IN  /\ \A k \in 1..Len(steps) :
                     /\ steps[k].random \in 0..233279
                     /\ steps[k].j \in 0..steps[k].i
                     /\ steps[k].i + 1 \in 1..n
                     /\ steps[k].i = n - k
               /\ pc[c] = "done"
                  => /\ Len(steps) = (IF n > 0 THEN n - 1 ELSE 0)
                     /\ resp[c].shuffled = seededShuffle(loc[c].array, loc[c].seed)

\* a call with a seed near 2^31 on an array of full length has returned; its
\* first step yielded 233279 and the last place as partner (j = i)
LcgExtremesReached ==
    /\ pc[1] = "done"
    /\ Len(loc[1].array) = MaxLcgLen
    /\ Len(loc[1].steps) = MaxLcgLen - 1
    /\ loc[1].steps[1].random = 233279
    /\ loc[1].steps[1].j = loc[1].steps[1].i
    /\ loc[1].seed = <<32767, 56310>>

====
